---- MODULE Spec2Model ----
(***************************************************************************)
(* State-machine model of the uk-property-analytics batch pipeline:        *)
(*   src/src/ingest_onspd.py        Reference Loader                       *)
(*   src/src/ingest_ppd.py          Transaction Loader + Spatial Join      *)
(*   src/src/build_heatmap_tiles.py Grid Aggregator                        *)
(* Text is modelled as sequences of one-character strings so that          *)
(* strip/upper/replace/int/float are computed, not assumed.  A missing     *)
(* text (SQL NULL, Python None) is <<"NULL">>; a nullable number is a        *)
(* sequence of at most one number, <<>> being NULL.                        *)
(***************************************************************************)
EXTENDS Integers, Sequences, FiniteSets, TLC

VARIABLES
    pc,                   \* position of the (single) running pipeline process
    runs,                 \* number of entry points started so far
    onspd_files,          \* input: the CSV files under data/raw, in path order
    ppd_csv,              \* input: rows of the transaction CSV as csv.reader yields them
    reader,               \* rows the running loader has not consumed yet
    batch,                \* in-memory batch of the running loader
    total_rows_read,      \* ingest_ppd counter
    total_rows_written,   \* ingest_ppd counter
    report,               \* <<read, written>> once ingest_ppd printed its "Done." line
    postcode_geo,         \* table postcode_geo          [exists, rows: postcode -> tuple]
    postcode_geo_region,  \* table postcode_geo_region   [exists, rows: set of tuples]
    ppd_sales,            \* table ppd_sales             [exists, rows: transaction_id -> tuple]
    ppd_sales_geo,        \* table ppd_sales_geo         [exists, rows: set of records]
    ppd_sales_geo_region, \* table ppd_sales_geo_region  [exists, rows: set of records]
    heatmap_tiles,        \* table heatmap_tiles         [exists, rows: set of records]
    source,               \* build_heatmap_tiles.main local: name of the chosen joined table
    start,                \* history: committed tables when the current run started
    published_tiles,      \* file data/published/heatmap_tiles.parquet [exists, rows]
    seen                  \* the dashboard's load_tiles() result: <<>> before any call

vars == <<pc, runs, onspd_files, ppd_csv, reader, batch, total_rows_read, total_rows_written,
          report, postcode_geo, postcode_geo_region, ppd_sales, ppd_sales_geo,
          ppd_sales_geo_region, heatmap_tiles, source, start, published_tiles, seen>>

\* ------------------------------------------------------------------------
\* Bounds of the model
\* ------------------------------------------------------------------------
\* Longest transaction file explored (rows, header included).
MaxPpdRows == 3
\* Longest reference file explored (data rows).
MaxRefRows == 3
\* Most rows of a joined table explored by the grid aggregator.
MaxJoined == 6
\* Most entry-point runs in one behaviour.
MaxRuns == 2
\* Batch size of both loaders; the source uses 50_000, scaled down so that
\* full batches, a partial last batch and several commits all occur.
BATCH_SIZE == 2

\* ------------------------------------------------------------------------
\* Python str / int / float primitives over character sequences
\* ------------------------------------------------------------------------
Null == <<"NULL">>
NullNum == <<>>

\* The characters str.strip(), int() and float() take for whitespace, among the
\* characters up to U+00FF (the range of characters this model writes).
Whitespace == {"\t", "\n", "", "\f", "\r", "", "", "", "", " ", "", " "}
Digits == {"0", "1", "2", "3", "4", "5", "6", "7", "8", "9"}
\* The cased letters up to U+00FF whose other case is one character of that range;
\* LowerAlpha[i] and UpperAlpha[i] are the two cases of one letter.
LowerAlpha == <<"a","b","c","d","e","f","g","h","i","j","k","l","m","n","o","p","q","r","s","t",
               "u","v","w","x","y","z","à","á","â","ã","ä","å","æ","ç","è","é","ê","ë","ì","í",
               "î","ï","ð","ñ","ò","ó","ô","õ","ö","ø","ù","ú","û","ü","ý","þ">>
UpperAlpha == <<"A","B","C","D","E","F","G","H","I","J","K","L","M","N","O","P","Q","R","S","T",
               "U","V","W","X","Y","Z","À","Á","Â","Ã","Ä","Å","Æ","Ç","È","É","Ê","Ë","Ì","Í",
               "Î","Ï","Ð","Ñ","Ò","Ó","Ô","Õ","Ö","Ø","Ù","Ú","Û","Ü","Ý","Þ">>

\* int() and float() skip the same characters around a number, the four
\* separators U+001C..U+001F excepted
NumericWhitespace == Whitespace \ {"", "", "", ""}

RECURSIVE lstrip_of(_, _)
lstrip_of(s, W) == IF s # <<>> /\ Head(s) \in W THEN lstrip_of(Tail(s), W) ELSE s

RECURSIVE rstrip_of(_, _)
rstrip_of(s, W) == IF s # <<>> /\ s[Len(s)] \in W
                   THEN rstrip_of(SubSeq(s, 1, Len(s) - 1), W) ELSE s

lstrip(s) == lstrip_of(s, Whitespace)
rstrip(s) == rstrip_of(s, Whitespace)

\* str.strip(): drops leading and trailing whitespace
strip(s) == rstrip(lstrip(s))

\* the text int() and float() read the number from
numeric_strip(s) == rstrip_of(lstrip_of(s, NumericWhitespace), NumericWhitespace)

\* c.upper(), a text: "ß" gives two characters. The upper case of "µ" is U+039C;
\* that of "ÿ" is U+0178, which a string of this notation cannot hold and which is
\* written by its escape.
UpperChar(c) ==
    IF c = "ß" THEN <<"S", "S">>
    ELSE IF c = "µ" THEN <<"Μ">>
    ELSE IF c = "ÿ" THEN <<"\\u0178">>
    ELSE IF \E i \in 1..Len(LowerAlpha) : LowerAlpha[i] = c
    THEN <<UpperAlpha[CHOOSE i \in 1..Len(LowerAlpha) : LowerAlpha[i] = c]>>
    ELSE <<c>>

\* c.lower(), one character
LowerChar(c) == IF \E i \in 1..Len(UpperAlpha) : UpperAlpha[i] = c
                THEN LowerAlpha[CHOOSE i \in 1..Len(UpperAlpha) : UpperAlpha[i] = c] ELSE c

RECURSIVE upper(_)
upper(s) == IF s = <<>> THEN <<>> ELSE UpperChar(Head(s)) \o upper(Tail(s))
lower(s) == [i \in 1..Len(s) |-> LowerChar(s[i])]

\* str.replace(" ", ""): removes the space character only
NotSpace(c) == c # " "
replace_spaces(s) == SelectSeq(s, NotSpace)

\* pc.strip().upper().replace(" ", "")
normalise_postcode(s) == replace_spaces(upper(strip(s)))

\* (x or None) for a str x
OrNone(s) == IF s = <<>> THEN Null ELSE s

\* sub in s
Contains(sub, s) ==
    \E i \in 0..(Len(s) - Len(sub)) : SubSeq(s, i + 1, i + Len(sub)) = sub

\* ",".join(fields)
RECURSIVE JoinComma(_)
JoinComma(fields) ==
    IF fields = <<>> THEN <<>>
    ELSE IF Len(fields) = 1 THEN fields[1]
    ELSE fields[1] \o <<",">> \o JoinComma(Tail(fields))

\* --- int(str): optional sign, decimal digits, single underscores between digits
IntBody(s) == LET t == numeric_strip(s)
              IN  IF t # <<>> /\ t[1] \in {"+", "-"} THEN Tail(t) ELSE t

IsDigit(c) == c \in Digits

\* int() raises ValueError for a text of more decimal digits than this
INT_MAX_STR_DIGITS == 4300

IsIntLiteral(s) ==
    LET b == IntBody(s)
    IN  /\ b # <<>>
        /\ \A i \in 1..Len(b) :
              \/ b[i] \in Digits
              \/ /\ b[i] = "_"
                 /\ i > 1 /\ i < Len(b)
                 /\ b[i - 1] \in Digits /\ b[i + 1] \in Digits
        /\ Len(SelectSeq(b, IsDigit)) <= INT_MAX_STR_DIGITS

RECURSIVE DropLeadingZeros(_)
DropLeadingZeros(d) ==
    IF Len(d) > 1 /\ Head(d) = "0" THEN DropLeadingZeros(Tail(d)) ELSE d

\* A Python int is unbounded: it is kept as sign and decimal magnitude.
PyInt(s) ==
    LET t == numeric_strip(s)
        mag == DropLeadingZeros(SelectSeq(IntBody(s), IsDigit))
    IN  [neg |-> (t[1] = "-") /\ mag # <<"0">>, mag |-> mag]

DigitVal(c) == CASE c = "0" -> 0 [] c = "1" -> 1 [] c = "2" -> 2 [] c = "3" -> 3
                 [] c = "4" -> 4 [] c = "5" -> 5 [] c = "6" -> 6 [] c = "7" -> 7
                 [] c = "8" -> 8 [] c = "9" -> 9

\* a < b for magnitudes without leading zeros
BigLess(a, b) ==
    \/ Len(a) < Len(b)
    \/ /\ Len(a) = Len(b)
       /\ \E i \in 1..Len(a) : /\ DigitVal(a[i]) < DigitVal(b[i])
                               /\ \A j \in 1..(i - 1) : a[j] = b[j]

MagLeq(a, b) == ~BigLess(b, a)

INT64_MAX_MAG == <<"9","2","2","3","3","7","2","0","3","6","8","5","4","7","7","5","8","0","7">>
INT64_MIN_MAG == <<"9","2","2","3","3","7","2","0","3","6","8","5","4","7","7","5","8","0","8">>

\* sqlite3 binds a Python int only when it fits a signed 64-bit INTEGER;
\* otherwise the bind raises OverflowError.
FitsSqliteInteger(n) ==
    IF n.neg THEN MagLeq(n.mag, INT64_MIN_MAG) ELSE MagLeq(n.mag, INT64_MAX_MAG)

RECURSIVE MagValue(_)
MagValue(d) == IF d = <<>> THEN 0
               ELSE 10 * MagValue(SubSeq(d, 1, Len(d) - 1)) + DigitVal(d[Len(d)])

\* the INTEGER stored for a Python int that fits: the same value, kept as sign
\* and decimal magnitude
SqlInteger(n) == [neg |-> n.neg, mag |-> n.mag]

\* --- float(str): surrounding whitespace, an optional sign, then inf, infinity or
\* nan in any case, or a decimal: digits with an optional point and an optional
\* exponent, single underscores between digits.
\* A float is [kind, neg, digits, exp]: kind "finite" is the double whose shortest
\* decimal (its repr) is (-1)^neg * digits * 10^exp, digits without leading or
\* trailing zeros (none for zero); kinds "inf" and "nan" have no digits. Two floats
\* are the same double exactly when they are equal here.
FloatBody(s) == LET t == numeric_strip(s)
                IN  IF t # <<>> /\ t[1] \in {"+", "-"} THEN Tail(t) ELSE t

FloatNeg(s) == LET t == numeric_strip(s) IN t # <<>> /\ t[1] = "-"

IsFloatInf(b) == lower(b) \in {<<"i","n","f">>, <<"i","n","f","i","n","i","t","y">>}
IsFloatNan(b) == lower(b) = <<"n","a","n">>

NotUnderscore(c) == c # "_"

UnderscoresBetweenDigits(b) ==
    \A i \in 1..Len(b) :
        b[i] = "_" => /\ i > 1 /\ i < Len(b)
                      /\ b[i - 1] \in Digits /\ b[i + 1] \in Digits

DotPos(b) == IF \E i \in 1..Len(b) : b[i] = "."
             THEN CHOOSE i \in 1..Len(b) : b[i] = "." /\ \A j \in 1..(i - 1) : b[j] # "."
             ELSE Len(b) + 1

ExpPos(b) == IF \E i \in 1..Len(b) : b[i] \in {"e", "E"}
             THEN CHOOSE i \in 1..Len(b) :
                      b[i] \in {"e", "E"} /\ \A j \in 1..(i - 1) : b[j] \notin {"e", "E"}
             ELSE Len(b) + 1

\* digits [. digits] with at least one digit
IsMantissa(m) ==
    LET d == DotPos(m)
    IN  /\ \A i \in 1..Len(m) : i # d => m[i] \in Digits
        /\ Len(m) - (IF d <= Len(m) THEN 1 ELSE 0) >= 1

\* [sign] digits
IsExponent(x) ==
    LET y == IF x # <<>> /\ x[1] \in {"+", "-"} THEN Tail(x) ELSE x
    IN  y # <<>> /\ \A i \in 1..Len(y) : y[i] \in Digits

IsFloatLiteral(s) ==
    LET b == FloatBody(s)
        c == SelectSeq(b, NotUnderscore)
        e == ExpPos(c)
    IN  \/ IsFloatInf(b)
        \/ IsFloatNan(b)
        \/ /\ UnderscoresBetweenDigits(b)
           /\ IsMantissa(SubSeq(c, 1, e - 1))
           /\ e <= Len(c) => IsExponent(SubSeq(c, e + 1, Len(c)))

DropZeros(d) ==
    IF \A i \in 1..Len(d) : d[i] = "0" THEN <<>>
    ELSE SubSeq(d, CHOOSE i \in 1..Len(d) : d[i] # "0" /\ \A j \in 1..(i - 1) : d[j] = "0",
                Len(d))

DropTrailingZeros(d) ==
    IF \A i \in 1..Len(d) : d[i] = "0" THEN <<>>
    ELSE SubSeq(d, 1, CHOOSE i \in 1..Len(d) :
                          d[i] # "0" /\ \A j \in (i + 1)..Len(d) : d[j] = "0")

\* the exponent as an integer; beyond six digits every exponent overflows or
\* underflows alike
ExpValue(x) ==
    LET y == DropLeadingZeros(IF x # <<>> /\ x[1] \in {"+", "-"} THEN Tail(x) ELSE x)
        v == IF x = <<>> THEN 0 ELSE IF Len(y) > 6 THEN 1000000 ELSE MagValue(y)
    IN  IF x # <<>> /\ x[1] = "-" THEN 0 - v ELSE v

\* --- unbounded naturals as decimal digit texts without leading zeros (<<>> is 0),
\* for the exact arithmetic behind the rounding of a double
DigitChar(v) == <<"0","1","2","3","4","5","6","7","8","9">>[v + 1]

Zeros(n) == [i \in 1..n |-> "0"]

BigOdd(a) == a # <<>> /\ DigitVal(a[Len(a)]) % 2 = 1

\* 2 * a
BigDouble(a) ==
    LET n == Len(a)
        c(i) == IF i <= n /\ DigitVal(a[i]) >= 5 THEN 1 ELSE 0
        body == [i \in 1..n |-> DigitChar(((2 * DigitVal(a[i])) % 10) + c(i + 1))]
    IN  IF c(1) = 1 THEN <<"1">> \o body ELSE body

\* a \div 2
BigHalf(a) ==
    LET n == Len(a)
        odd(i) == i >= 1 /\ DigitVal(a[i]) % 2 = 1
    IN  DropZeros([i \in 1..n |->
                      DigitChar((DigitVal(a[i]) + (IF odd(i - 1) THEN 10 ELSE 0)) \div 2)])

\* a + b
BigAdd(a, b) ==
    LET n == IF Len(a) > Len(b) THEN Len(a) ELSE Len(b)
        x == Zeros(n - Len(a)) \o a
        y == Zeros(n - Len(b)) \o b
        s == [i \in 1..n |-> DigitVal(x[i]) + DigitVal(y[i])]
        RECURSIVE carry(_)       \* into position i
        carry(i) == IF i = n THEN 0
                    ELSE IF s[i + 1] = 9 THEN carry(i + 1)
                    ELSE IF s[i + 1] > 9 THEN 1 ELSE 0
        body == [i \in 1..n |-> DigitChar((s[i] + carry(i)) % 10)]
    IN  IF carry(0) = 1 THEN <<"1">> \o body ELSE body

\* a - b, for a >= b
BigSub(a, b) ==
    LET n == Len(a)
        y == Zeros(n - Len(b)) \o b
        d == [i \in 1..n |-> DigitVal(a[i]) - DigitVal(y[i])]
        RECURSIVE borrow(_)      \* from position i
        borrow(i) == IF i = n THEN 0
                     ELSE IF d[i + 1] = 0 THEN borrow(i + 1)
                     ELSE IF d[i + 1] < 0 THEN 1 ELSE 0
    IN  DropZeros([i \in 1..n |-> DigitChar((d[i] - borrow(i) + 10) % 10)])

\* a * 2^s
RECURSIVE Times2(_, _)
Times2(a, s) ==
    LET Double8(x) ==
            BigDouble(BigDouble(BigDouble(BigDouble(BigDouble(BigDouble(BigDouble(BigDouble(x))))))))
    IN  IF a = <<>> \/ s = 0 THEN a
        ELSE IF s >= 8 THEN Times2(Double8(a), s - 8)
        ELSE Times2(BigDouble(a), s - 1)

\* a \div 2^s
RECURSIVE Over2(_, _)
Over2(a, s) ==
    LET Half8(x) == BigHalf(BigHalf(BigHalf(BigHalf(BigHalf(BigHalf(BigHalf(BigHalf(x))))))))
    IN  IF a = <<>> \/ s = 0 THEN a
        ELSE IF s >= 8 THEN Over2(Half8(a), s - 8)
        ELSE Over2(BigHalf(a), s - 1)

\* a * d for a digit value d
TimesDigit(a, d) ==
    LET a2 == BigDouble(a)
        a4 == BigDouble(a2)
    IN  BigAdd(BigAdd(IF d % 2 = 1 THEN a ELSE <<>>, IF (d \div 2) % 2 = 1 THEN a2 ELSE <<>>),
               BigAdd(IF (d \div 4) % 2 = 1 THEN a4 ELSE <<>>,
                      IF d >= 8 THEN BigDouble(a4) ELSE <<>>))

\* a * b
RECURSIVE BigTimes(_, _)
BigTimes(a, b) ==
    IF b = <<>> THEN <<>>
    ELSE LET rest == BigTimes(a, SubSeq(b, 1, Len(b) - 1))
         IN  BigAdd(IF rest = <<>> THEN <<>> ELSE rest \o <<"0">>,
                    TimesDigit(a, DigitVal(b[Len(b)])))

\* --- IEEE-754 binary64: a finite double is m * 2^k with 2^52 <= m < 2^53, or with
\* m < 2^52 and k = -1074 (subnormal)
TWO53 == <<"9","0","0","7","1","9","9","2","5","4","7","4","0","9","9","2">>
MIN_EXP2 == 0 - 1074
MAX_EXP2 == 971

\* the binary exponent of the double nearest to N / M before rounding: the k with
\* 2^52 <= N / (M * 2^k) < 2^53, and MIN_EXP2 for a smaller quotient
RECURSIVE Fit(_, _, _)
Fit(N, M, k) ==
    LET num == IF k < 0 THEN Times2(N, 0 - k) ELSE N
        den == IF k > 0 THEN Times2(M, k) ELSE M
    IN  IF ~BigLess(num, Times2(den, 53)) THEN Fit(N, M, k + 1)
        ELSE IF k > MIN_EXP2 /\ BigLess(num, Times2(den, 52)) THEN Fit(N, M, k - 1)
        ELSE k

\* r - p * 10^i where that is not negative, else r
Take(r, p, i) == LET t == p \o Zeros(i) IN IF BigLess(r, t) THEN r ELSE BigSub(r, t)

\* quotient digits i..0 and remainder of rem by dens[1], dens = <<d, 2d, 4d, 8d>>:
\* each digit is found by taking 8, 4, 2 and 1 times d * 10^i where it fits
RECURSIVE LongDiv(_, _, _)
LongDiv(rem, dens, i) ==
    IF i < 0 THEN [q |-> <<>>, r |-> rem]
    ELSE LET r8 == Take(rem, dens[4], i)
             r4 == Take(r8, dens[3], i)
             r2 == Take(r4, dens[2], i)
             r1 == Take(r2, dens[1], i)
             d == (IF r8 = rem THEN 0 ELSE 8) + (IF r4 = r8 THEN 0 ELSE 4)
                  + (IF r2 = r4 THEN 0 ELSE 2) + (IF r1 = r2 THEN 0 ELSE 1)
             sub == LongDiv(r1, dens, i - 1)
         IN  [q |-> <<DigitChar(d)>> \o sub.q, r |-> sub.r]

\* quotient qr.q and remainder qr.r of a division by den, rounded half to even to
\* the double [kind, m, k]: kind "inf" on overflow and "zero" on underflow
RoundHalfEven(qr, den, k) ==
    LET quot == DropZeros(qr.q)
        twice == BigDouble(qr.r)
        up == BigLess(den, twice) \/ (twice = den /\ BigOdd(quot))
        m == IF up THEN BigAdd(quot, <<"1">>) ELSE quot
        carry == m = TWO53
    IN  IF m = <<>> THEN [kind |-> "zero", m |-> <<>>, k |-> 0]
        ELSE IF k + (IF carry THEN 1 ELSE 0) > MAX_EXP2 THEN [kind |-> "inf", m |-> <<>>, k |-> 0]
        ELSE [kind |-> "finite", m |-> IF carry THEN BigHalf(TWO53) ELSE m,
              k |-> k + (IF carry THEN 1 ELSE 0)]

\* the double nearest to N / M at the binary exponent k; the quotient is below
\* 2^53 < 10^16
RoundAt(N, M, k) ==
    LET num == IF k < 0 THEN Times2(N, 0 - k) ELSE N
        den == IF k > 0 THEN Times2(M, k) ELSE M
        den2 == BigDouble(den)
        den4 == BigDouble(den2)
    IN  RoundHalfEven(LongDiv(num, <<den, den2, den4, BigDouble(den4)>>, 15), den, k)

\* the double nearest to N / M (N, M > 0), ties to even
RoundDiv(N, M) ==
    LET guess == ((Len(N) - Len(M)) * 3322) \div 1000 - 53
    IN  RoundAt(N, M, Fit(N, M, IF guess < MIN_EXP2 THEN MIN_EXP2 ELSE guess))

\* the double nearest to digits * 10^exp
ToBinary(digits, exp) ==
    RoundDiv(IF exp >= 0 THEN digits \o Zeros(exp) ELSE digits,
             IF exp >= 0 THEN <<"1">> ELSE <<"1">> \o Zeros(0 - exp))

\* a decimal [digits, exp] without trailing zeros
Decimal(digits, exp) ==
    LET d == DropTrailingZeros(digits)
    IN  [digits |-> d, exp |-> exp + (Len(digits) - Len(d))]

\* a * 2^s in units of 10^s for s < 0, of 1 otherwise
Exact(a, s) == IF s >= 0 THEN Times2(a, s) ELSE Over2(a \o Zeros(0 - s), 0 - s)

\* the decimal of fewest digits, n or more, between below and above (the two
\* included when closed), the nearest to V among those
RECURSIVE Search(_, _, _, _, _)
Search(V, below, above, closed, n) ==
    IF n >= Len(V) THEN V
    ELSE LET head == SubSeq(V, 1, n)
             rest == SubSeq(V, n + 1, Len(V))
             lo == head \o Zeros(Len(V) - n)
             hi == BigAdd(head, <<"1">>) \o Zeros(Len(V) - n)
             hiFirst == IF DropTrailingZeros(rest) = <<"5">> THEN BigOdd(head)
                        ELSE DigitVal(rest[1]) >= 5
             first == IF hiFirst THEN hi ELSE lo
             second == IF hiFirst THEN lo ELSE hi
             Works(c) == IF closed THEN ~BigLess(c, below) /\ ~BigLess(above, c)
                         ELSE BigLess(below, c) /\ BigLess(c, above)
         IN  IF Works(first) THEN first
             ELSE IF Works(second) THEN second
             ELSE Search(V, below, above, closed, n + 1)

\* The shortest decimal that reads back as the double b, the nearest to b's value
\* among the shortest (what repr() prints). A decimal reads back as b when it lies
\* between the midpoints to b's neighbours, the midpoints included when m is even.
\* In units of 2^(k-2) b is 4m and the midpoints are 4m + 2 and 4m - 2, or 4m - 1
\* where the binade below begins.
Shortest(b) ==
    LET s == b.k - 2
        four == BigDouble(BigDouble(b.m))
        V == Exact(four, s)
        above == Exact(BigAdd(four, <<"2">>), s)
        below == Exact(BigSub(four, IF b.m = BigHalf(TWO53) /\ b.k > MIN_EXP2
                                    THEN <<"1">> ELSE <<"2">>), s)
    IN  Decimal(Search(V, below, above, ~BigOdd(b.m), 1), IF s >= 0 THEN 0 ELSE s)

DBL_DIG == 15
SAFE_EXP10 == 290
\* beyond this decimal exponent every value overflows or underflows
MAX_EXP10 == 330

FloatInf(neg) == [kind |-> "inf", neg |-> neg, digits |-> <<>>, exp |-> 0]
FloatNan == [kind |-> "nan", neg |-> FALSE, digits |-> <<>>, exp |-> 0]
FloatZero(neg) == [kind |-> "finite", neg |-> neg, digits |-> <<>>, exp |-> 0]

\* the double b with its sign, as a float
FromBinary(neg, b) ==
    IF b.kind = "inf" THEN FloatInf(neg)
    ELSE IF b.kind = "zero" THEN FloatZero(neg)
    ELSE LET short == Shortest(b)
         IN  [kind |-> "finite", neg |-> neg, digits |-> short.digits, exp |-> short.exp]

\* The double nearest to the decimal. A decimal of at most DBL_DIG significant
\* digits inside the normal range is the shortest decimal of its double.
PyFloat(s) ==
    LET b == FloatBody(s)
        neg == FloatNeg(s)
        c == SelectSeq(b, NotUnderscore)
        e == ExpPos(c)
        m == SubSeq(c, 1, e - 1)
        d == DotPos(m)
        frac == SubSeq(m, d + 1, Len(m))
        lead == DropZeros(SubSeq(m, 1, d - 1) \o frac)
        digits == DropTrailingZeros(lead)
        exp == ExpValue(SubSeq(c, e + 1, Len(c))) - Len(frac) + (Len(lead) - Len(digits))
        top == Len(digits) + exp       \* the value is 0.digits * 10^top
    IN  IF IsFloatNan(b) THEN FloatNan
        ELSE IF IsFloatInf(b) THEN FloatInf(neg)
        ELSE IF digits = <<>> THEN FloatZero(neg)
        ELSE IF Len(digits) <= DBL_DIG /\ top >= 0 - SAFE_EXP10 /\ top <= SAFE_EXP10
             THEN [kind |-> "finite", neg |-> neg, digits |-> digits, exp |-> exp]
        ELSE IF top > MAX_EXP10 THEN FloatInf(neg)
        ELSE IF top < 0 - MAX_EXP10 THEN FloatZero(neg)
        ELSE FromBinary(neg, ToBinary(digits, exp))

\* sqlite3 binds a float as a REAL and NaN as NULL; a REAL column stores a zero
\* without its sign
SqlReal(f) == IF f.kind = "nan" THEN NullNum
              ELSE IF f.kind = "finite" /\ f.digits = <<>> THEN <<FloatZero(FALSE)>>
              ELSE <<f>>

\* ------------------------------------------------------------------------
\* Tables and views
\* ------------------------------------------------------------------------
NoKeyedTable == [exists |-> FALSE, rows |-> <<>>]
NoTable == [exists |-> FALSE, rows |-> {}]

\* What a query on a table finds (table_exists, table_rowcount): the table is
\* missing, has no rows, or has rows.
View(t) == IF ~t.exists THEN "missing" ELSE IF t.rows = {} THEN "empty" ELSE "rows"

Derived == [uk |-> View(ppd_sales_geo), region |-> View(ppd_sales_geo_region),
            tiles |-> View(heatmap_tiles)]

\* taken when an entry point starts: which one, how the run before it ended, and
\* the committed tables it found
Snapshot(main, prev) == [main |-> main, prev |-> prev, ppd_sales |-> ppd_sales.rows,
                         postcode_geo |-> postcode_geo.rows,
                         postcode_geo_region |-> postcode_geo_region, derived |-> Derived]

\* ------------------------------------------------------------------------
\* Transaction Loader: ingest_ppd.py
\* ------------------------------------------------------------------------
\* detect_header(first_row)
detect_header(first_row) ==
    IF first_row = <<>> THEN FALSE
    ELSE LET joined == lower(JoinComma(first_row))
         IN  \/ /\ Contains(<<"t","r","a","n","s","a","c","t","i","o","n">>, joined)
                /\ Contains(<<"i","d","e","n","t","i","f","i","e","r">>, joined)
             \/ /\ Contains(<<"p","r","i","c","e">>, joined)
                /\ Contains(<<"p","o","s","t","c","o","d","e">>, joined)

\* The four `continue` checks of the row loop; k-th column of the source is row[k + 1].
PpdAccepts(row) ==
    /\ row # <<>> /\ Len(row) >= 7
    /\ strip(row[1]) # <<>>
    /\ IsIntLiteral(strip(row[2]))
    /\ normalise_postcode(row[4]) # <<>>

\* (row[k] or "").strip() if len(row) > k else "", then `or None`
Optional(row, k) == IF Len(row) > k THEN OrNone(strip(row[k + 1])) ELSE Null

\* the 16-tuple appended to the batch; price is still a Python int
PpdTuple(row) ==
    <<strip(row[1]), PyInt(strip(row[2])), strip(row[3]), normalise_postcode(row[4]),
      OrNone(strip(row[5])), OrNone(strip(row[6])), OrNone(strip(row[7])),
      Optional(row, 7), Optional(row, 8), Optional(row, 9), Optional(row, 10),
      Optional(row, 11), Optional(row, 12), Optional(row, 13), Optional(row, 14),
      Optional(row, 15)>>

\* binding one batch tuple: the Python int becomes an SQLite INTEGER
BoundPpd(t) == [i \in 1..16 |-> IF i = 2 THEN <<SqlInteger(t[2])>> ELSE t[i]]

\* faulty variant: every appended row is committed on its own
ShouldFlush_EveryRow(b) == Len(b) >= 1

\* `if len(batch) >= BATCH_SIZE:` after an append
ShouldFlush(b) == Len(b) >= BATCH_SIZE

\* executemany raises OverflowError when a parameter cannot be bound
PpdBindFails(b) == \E i \in 1..Len(b) : ~FitsSqliteInteger(b[i][2])

\* faulty variant: ON CONFLICT DO NOTHING, the first row of a key is kept
Upsert_KeepFirst(rows, t) ==
    [k \in (DOMAIN rows) \cup {t[1]} |-> IF k \in DOMAIN rows THEN rows[k] ELSE t]

\* faulty variant: the UPDATE branch assigns lat and lon from each other's column
Upsert_SwappedUpdate(rows, t) ==
    [k \in (DOMAIN rows) \cup {t[1]} |->
        IF k # t[1] THEN rows[k]
        ELSE IF k \in DOMAIN rows
             THEN [i \in 1..Len(t) |-> IF i = 2 THEN t[3] ELSE IF i = 3 THEN t[2] ELSE t[i]]
             ELSE t]

\* INSERT ... ON CONFLICT(key) DO UPDATE SET <every other column> = excluded.*
Upsert(rows, t) == [k \in (DOMAIN rows) \cup {t[1]} |-> IF k = t[1] THEN t ELSE rows[k]]

RECURSIVE PpdExecutemany(_, _)
PpdExecutemany(rows, b) ==
    IF b = <<>> THEN rows
    ELSE PpdExecutemany(Upsert(rows, BoundPpd(Head(b))), Tail(b))

ppd_unchanged_other ==
    UNCHANGED <<onspd_files, ppd_csv, postcode_geo, postcode_geo_region,
                heatmap_tiles, source>>

\* main() up to the row loop: ensure_schema, open the file, peek at the first row
IngestPpdOpen ==
    /\ pc = "idle" /\ runs < MaxRuns
    /\ runs' = runs + 1
    /\ ppd_sales' = [ppd_sales EXCEPT !.exists = TRUE]
    /\ start' = Snapshot("ppd", start.prev)
    /\ batch' = <<>>
    /\ total_rows_read' = 0
    /\ total_rows_written' = 0
    /\ report' = <<>>
    /\ IF ppd_csv = <<>>
       THEN /\ pc' = "exit"            \* SystemExit: file is empty
            /\ reader' = <<>>
       ELSE /\ pc' = "ingest_ppd"
            /\ reader' = IF detect_header(Head(ppd_csv)) THEN Tail(ppd_csv) ELSE ppd_csv
    /\ UNCHANGED <<ppd_sales_geo, ppd_sales_geo_region, seen, published_tiles>>
    /\ ppd_unchanged_other

\* one iteration of `for row in reader`
IngestPpdRow ==
    /\ pc = "ingest_ppd" /\ reader # <<>>
    /\ LET row == Head(reader)
           b == IF PpdAccepts(row) THEN Append(batch, PpdTuple(row)) ELSE batch
       IN  /\ reader' = Tail(reader)
           /\ total_rows_read' = total_rows_read + 1
           /\ IF PpdAccepts(row) /\ ShouldFlush(b)
              THEN IF PpdBindFails(b)
                   THEN /\ pc' = "raised"      \* OverflowError leaves main; close() rolls back
                        /\ batch' = <<>>
                        /\ UNCHANGED <<ppd_sales, total_rows_written>>
                   ELSE /\ ppd_sales' = [ppd_sales EXCEPT !.rows = PpdExecutemany(@, b)]
                        /\ total_rows_written' = total_rows_written + Len(b)
                        /\ batch' = <<>>
                        /\ pc' = pc
              ELSE /\ batch' = b
                   /\ UNCHANGED <<pc, ppd_sales, total_rows_written>>
    /\ UNCHANGED <<runs, report, ppd_sales_geo, ppd_sales_geo_region, start, seen, published_tiles>>
    /\ ppd_unchanged_other

\* after the loop: `if batch:` executemany, commit, count
IngestPpdEnd ==
    /\ pc = "ingest_ppd" /\ reader = <<>>
    /\ IF batch # <<>> /\ PpdBindFails(batch)
       THEN /\ pc' = "raised"
            /\ UNCHANGED <<ppd_sales, total_rows_written>>
       ELSE /\ ppd_sales' = [ppd_sales EXCEPT !.rows = PpdExecutemany(@, batch)]
            /\ total_rows_written' = total_rows_written + Len(batch)
            /\ pc' = "ppd_done"
    /\ batch' = <<>>
    /\ UNCHANGED <<runs, reader, total_rows_read, report, ppd_sales_geo,
                   ppd_sales_geo_region, start, seen, published_tiles>>
    /\ ppd_unchanged_other

\* the "Done." line of ingest_ppd, then main's lookup of postcode_geo
IngestPpdDone ==
    /\ pc = "ppd_done"
    /\ report' = <<total_rows_read, total_rows_written>>
    /\ pc' = IF postcode_geo.exists THEN "join_drop_uk" ELSE "exit"
    /\ UNCHANGED <<runs, reader, batch, total_rows_read, total_rows_written, ppd_sales,
                   ppd_sales_geo, ppd_sales_geo_region, start, seen, published_tiles>>
    /\ ppd_unchanged_other

\* ------------------------------------------------------------------------
\* Spatial Join Builder: build_joined_tables
\* ------------------------------------------------------------------------
\* SELECT p.*, g.lat, g.lon, g.ladnm FROM ppd_sales p JOIN <geo> g
\*   ON p.postcode = g.postcode WHERE g.lat IS NOT NULL AND g.lon IS NOT NULL
\* geo tuples are <<postcode, lat, lon, ladcd, ladnm>>
JoinSelect(sales, geo) ==
    { [transaction_id |-> p[1], price |-> p[2], transfer_date |-> p[3],
       postcode |-> p[4], property_type |-> p[5], new_build |-> p[6],
       tenure |-> p[7], lat |-> g[2], lon |-> g[3], ladnm |-> g[5]] :
      <<p, g>> \in { pg \in {sales[k] : k \in DOMAIN sales} \X geo :
                       /\ pg[1][4] = pg[2][1]
                       /\ pg[2][2] # NullNum /\ pg[2][3] # NullNum } }

GeoRows == {postcode_geo.rows[k] : k \in DOMAIN postcode_geo.rows}

join_unchanged_other ==
    UNCHANGED <<runs, onspd_files, ppd_csv, reader, batch, total_rows_read,
                total_rows_written, report, postcode_geo, postcode_geo_region,
                ppd_sales, heatmap_tiles, source, start, seen, published_tiles>>

\* DROP TABLE IF EXISTS ppd_sales_geo   (DDL outside a transaction: visible at once)
BuildJoinedDropUk ==
    /\ pc = "join_drop_uk"
    /\ ppd_sales_geo' = NoTable
    /\ pc' = "join_create_uk"
    /\ UNCHANGED ppd_sales_geo_region
    /\ join_unchanged_other

\* CREATE TABLE ppd_sales_geo AS SELECT ...; then the sqlite_master lookup
BuildJoinedCreateUk ==
    /\ pc = "join_create_uk"
    /\ ppd_sales_geo' = [exists |-> TRUE, rows |-> JoinSelect(ppd_sales.rows, GeoRows)]
    /\ pc' = IF postcode_geo_region.exists THEN "join_drop_region" ELSE "done"
    /\ UNCHANGED ppd_sales_geo_region
    /\ join_unchanged_other

\* DROP TABLE IF EXISTS ppd_sales_geo_region
BuildJoinedDropRegion ==
    /\ pc = "join_drop_region"
    /\ ppd_sales_geo_region' = NoTable
    /\ pc' = "join_create_region"
    /\ UNCHANGED ppd_sales_geo
    /\ join_unchanged_other

\* CREATE TABLE ppd_sales_geo_region AS SELECT ...
BuildJoinedCreateRegion ==
    /\ pc = "join_create_region"
    /\ ppd_sales_geo_region' =
           [exists |-> TRUE, rows |-> JoinSelect(ppd_sales.rows, postcode_geo_region.rows)]
    /\ pc' = "done"
    /\ UNCHANGED ppd_sales_geo
    /\ join_unchanged_other

\* ------------------------------------------------------------------------
\* Environment: process termination and a concurrent reader
\* ------------------------------------------------------------------------
Running == pc \notin {"idle", "done", "exit", "raised", "killed"}

\* the process is terminated; nothing uncommitted survives
Kill ==
    /\ Running
    /\ pc' = "killed"
    /\ batch' = <<>>
    /\ UNCHANGED <<runs, onspd_files, ppd_csv, reader, total_rows_read, total_rows_written,
                   report, postcode_geo, postcode_geo_region, ppd_sales, ppd_sales_geo,
                   ppd_sales_geo_region, heatmap_tiles, source, start, seen, published_tiles>>

\* ------------------------------------------------------------------------
\* Tile Consumer: streamlit_app.py
\* ------------------------------------------------------------------------
\* a bin that pandas holds as NaN (a NULL, or a value pd.to_numeric cannot convert)
NanBin == [kind |-> "nan", neg |-> FALSE, mag |-> <<>>]

\* df.dropna(subset=["lat_bin", "lon_bin"])
dropna(rows) == {r \in rows : r.lat_bin # NanBin /\ r.lon_bin # NanBin}

\* load_tiles(): the published snapshot when the file exists, else the live tile
\* table of the store; exists = FALSE stands for the query raising (no such table)
load_tiles ==
    IF published_tiles.exists
    THEN [exists |-> TRUE, rows |-> dropna(published_tiles.rows)]
    ELSE [exists |-> heatmap_tiles.exists, rows |-> dropna(heatmap_tiles.rows)]

\* the dashboard (another process) calls load_tiles()
Reader ==
    /\ seen' = <<load_tiles>>
    /\ seen' # seen
    /\ UNCHANGED <<pc, runs, onspd_files, ppd_csv, reader, batch, total_rows_read,
                   total_rows_written, report, postcode_geo, postcode_geo_region,
                   ppd_sales, ppd_sales_geo, ppd_sales_geo_region, heatmap_tiles,
                   source, start, published_tiles>>

\* ------------------------------------------------------------------------
\* Reference Loader: ingest_onspd.py
\* ------------------------------------------------------------------------
\* The allow-list of local-authority names
LAD_NAMES_REGION ==
    { <<"W","o","r","c","e","s","t","e","r">>,
      <<"W","y","c","h","a","v","o","n">>,
      <<"M","a","l","v","e","r","n"," ","H","i","l","l","s">>,
      <<"B","r","o","m","s","g","r","o","v","e">>,
      <<"R","e","d","d","i","t","c","h">>,
      <<"W","y","r","e"," ","F","o","r","e","s","t">>,
      <<"H","e","r","e","f","o","r","d","s","h","i","r","e",","," ","C","o","u","n","t","y"," ","o","f">>,
      <<"C","h","e","l","t","e","n","h","a","m">>,
      <<"C","o","t","s","w","o","l","d">>,
      <<"F","o","r","e","s","t"," ","o","f"," ","D","e","a","n">>,
      <<"G","l","o","u","c","e","s","t","e","r">>,
      <<"S","t","r","o","u","d">>,
      <<"T","e","w","k","e","s","b","u","r","y">>,
      <<"N","o","r","t","h"," ","W","a","r","w","i","c","k","s","h","i","r","e">>,
      <<"N","u","n","e","a","t","o","n"," ","a","n","d"," ","B","e","d","w","o","r","t","h">>,
      <<"R","u","g","b","y">>,
      <<"S","t","r","a","t","f","o","r","d","-","o","n","-","A","v","o","n">>,
      <<"W","a","r","w","i","c","k">>,
      <<"C","a","n","n","o","c","k"," ","C","h","a","s","e">>,
      <<"E","a","s","t"," ","S","t","a","f","f","o","r","d","s","h","i","r","e">>,
      <<"L","i","c","h","f","i","e","l","d">>,
      <<"N","e","w","c","a","s","t","l","e","-","u","n","d","e","r","-","L","y","m","e">>,
      <<"S","o","u","t","h"," ","S","t","a","f","f","o","r","d","s","h","i","r","e">>,
      <<"S","t","a","f","f","o","r","d">>,
      <<"S","t","a","f","f","o","r","d","s","h","i","r","e"," ","M","o","o","r","l","a","n","d","s">>,
      <<"T","a","m","w","o","r","t","h">>,
      <<"S","h","r","o","p","s","h","i","r","e">>,
      <<"T","e","l","f","o","r","d"," ","a","n","d"," ","W","r","e","k","i","n">>,
      <<"B","i","r","m","i","n","g","h","a","m">>,
      <<"C","o","v","e","n","t","r","y">>,
      <<"D","u","d","l","e","y">>,
      <<"S","a","n","d","w","e","l","l">>,
      <<"S","o","l","i","h","u","l","l">>,
      <<"W","a","l","s","a","l","l">>,
      <<"W","o","l","v","e","r","h","a","m","p","t","o","n">> }

\* a or b, for values that are None or str
PyOr(a, b) == IF a # Null /\ a # <<>> THEN a ELSE b

EndsWith(s, suffix) ==
    Len(s) >= Len(suffix) /\ SubSeq(s, Len(s) - Len(suffix) + 1, Len(s)) = suffix

\* row.get("pcds") or row.get("pcd") or ""
PcRaw(row) == PyOr(PyOr(row.pcds, row.pcd), <<>>)
LatS(row) == strip(PyOr(row.lat, <<>>))
LonS(row) == strip(PyOr(PyOr(row.long, row.lon), <<>>))

\* `if not pc_raw: continue`
OnspdAccepts(row) == PcRaw(row) # <<>>

\* float(lat_s) / float(lon_s) raises ValueError
OnspdRaises(row) ==
    \/ LatS(row) # <<>> /\ ~IsFloatLiteral(LatS(row))
    \/ LonS(row) # <<>> /\ ~IsFloatLiteral(LonS(row))

\* (pc, lat, lon, ladcd, ladnm)
OnspdTuple(row) ==
    <<normalise_postcode(PcRaw(row)),
      IF LatS(row) # <<>> THEN <<PyFloat(LatS(row))>> ELSE NullNum,
      IF LonS(row) # <<>> THEN <<PyFloat(LonS(row))>> ELSE NullNum,
      OrNone(strip(PyOr(row.ladcd, <<>>))),
      OrNone(strip(PyOr(row.ladnm, <<>>)))>>

\* binding one batch tuple: the two Python floats become REAL or NULL
BoundOnspd(t) ==
    [i \in 1..5 |-> IF i \in {2, 3} /\ t[i] # NullNum THEN SqlReal(t[i][1]) ELSE t[i]]

\* upsert_batch: executemany of the upsert, then commit
RECURSIVE upsert_batch(_, _)
upsert_batch(rows, b) ==
    IF b = <<>> THEN rows ELSE upsert_batch(Upsert(rows, BoundOnspd(Head(b))), Tail(b))

\* find_csv_files: the matches of data/raw/*.csv followed by those of
\* data/raw/**/*.csv, sorted. The recursive pattern matches the files of data/raw
\* itself again, so each of them is listed twice and a nested file once.
RECURSIVE find_csv_files(_)
find_csv_files(listing) ==
    IF listing = <<>> THEN <<>>
    ELSE (IF Head(listing).dir = <<>> THEN <<Head(listing), Head(listing)>>
          ELSE <<Head(listing)>>) \o find_csv_files(Tail(listing))

\* main: the first file whose upper-cased name ends with _UK.CSV, else csvs[0]
IsUkName(name) == EndsWith(upper(name), <<"_","U","K",".","C","S","V">>)

chosen(csvs) ==
    IF \E i \in 1..Len(csvs) : IsUkName(csvs[i].name)
    THEN csvs[CHOOSE i \in 1..Len(csvs) :
                 IsUkName(csvs[i].name) /\ \A j \in 1..(i - 1) : ~IsUkName(csvs[j].name)]
    ELSE csvs[1]

onspd_unchanged_other ==
    UNCHANGED <<onspd_files, ppd_csv, total_rows_read, total_rows_written, report,
                ppd_sales, ppd_sales_geo, ppd_sales_geo_region, heatmap_tiles, source, seen, published_tiles>>

\* main() up to ingest_csv's row loop: find_csv_files, ensure_schema, choose the file
OnspdOpen ==
    /\ pc = "idle" /\ runs < MaxRuns
    /\ runs' = runs + 1
    /\ start' = Snapshot("onspd", start.prev)
    /\ batch' = <<>>
    /\ IF find_csv_files(onspd_files) = <<>>
       THEN /\ pc' = "exit"             \* SystemExit: no CSV found
            /\ reader' = <<>>
            /\ UNCHANGED postcode_geo
       ELSE /\ pc' = "ingest_csv"
            /\ reader' = chosen(find_csv_files(onspd_files)).rows
            /\ postcode_geo' = [postcode_geo EXCEPT !.exists = TRUE]
    /\ UNCHANGED postcode_geo_region
    /\ onspd_unchanged_other

\* one iteration of `for i, row in enumerate(reader, start=1)`
IngestCsvRow ==
    /\ pc = "ingest_csv" /\ reader # <<>>
    /\ LET row == Head(reader)
       IN  IF ~OnspdAccepts(row)
           THEN /\ reader' = Tail(reader)
                /\ UNCHANGED <<pc, batch, postcode_geo>>
           ELSE IF OnspdRaises(row)
           THEN /\ pc' = "raised"       \* ValueError leaves main; the batch is lost
                /\ batch' = <<>>
                /\ UNCHANGED <<reader, postcode_geo>>
           ELSE LET b == Append(batch, OnspdTuple(row))
                IN  /\ reader' = Tail(reader)
                    /\ pc' = pc
                    /\ IF ShouldFlush(b)
                       THEN /\ postcode_geo' = [postcode_geo EXCEPT !.rows = upsert_batch(@, b)]
                            /\ batch' = <<>>
                       ELSE /\ batch' = b
                            /\ UNCHANGED postcode_geo
    /\ UNCHANGED <<runs, postcode_geo_region, start>>
    /\ onspd_unchanged_other

\* after the loop: `if batch: upsert_batch(conn, batch)`
IngestCsvEnd ==
    /\ pc = "ingest_csv" /\ reader = <<>>
    /\ postcode_geo' = [postcode_geo EXCEPT !.rows = upsert_batch(@, batch)]
    /\ batch' = <<>>
    /\ pc' = "region_drop"
    /\ UNCHANGED <<runs, reader, postcode_geo_region, start>>
    /\ onspd_unchanged_other

\* SELECT * FROM postcode_geo WHERE ladnm IN (...) AND lat IS NOT NULL AND lon IS NOT NULL
RegionSelect(geo) ==
    { g \in {geo[k] : k \in DOMAIN geo} :
        g[5] \in LAD_NAMES_REGION /\ g[2] # NullNum /\ g[3] # NullNum }

\* build_region: DROP TABLE IF EXISTS postcode_geo_region
BuildRegionDrop ==
    /\ pc = "region_drop"
    /\ postcode_geo_region' = NoTable
    /\ pc' = "region_create"
    /\ UNCHANGED <<runs, reader, batch, postcode_geo, start>>
    /\ onspd_unchanged_other

\* build_region: CREATE TABLE postcode_geo_region AS SELECT ...
BuildRegionCreate ==
    /\ pc = "region_create"
    /\ postcode_geo_region' = [exists |-> TRUE, rows |-> RegionSelect(postcode_geo.rows)]
    /\ pc' = "done"
    /\ UNCHANGED <<runs, reader, batch, postcode_geo, start>>
    /\ onspd_unchanged_other

\* the operator starts the next entry point after the previous process ended,
\* however it ended
NextRun ==
    /\ pc \in {"done", "exit", "raised", "killed"}
    /\ runs < MaxRuns
    /\ pc' = "idle"
    /\ start' = [start EXCEPT !.prev = pc]
    /\ UNCHANGED <<runs, onspd_files, ppd_csv, reader, batch, total_rows_read,
                   total_rows_written, report, postcode_geo, postcode_geo_region,
                   ppd_sales, ppd_sales_geo, ppd_sales_geo_region, heatmap_tiles,
                   source, seen, published_tiles>>

\* ------------------------------------------------------------------------
\* Grid Aggregator: build_heatmap_tiles.py
\* ------------------------------------------------------------------------
\* GRID_DEGREES = 0.01
GRID_DEGREES == [kind |-> "finite", neg |-> FALSE, digits |-> <<"1">>, exp |-> 0 - 2]
\* HAVING cnt >= 5
HAVING_CNT == 5

\* The multiples h of 0.01 between -180 and 180 degrees, as the integer h, for which
\* the IEEE-754 quotient (h * 0.01 as a double) / 0.01 is not h but falls on the
\* side where FLOOR gives h - 1 (0.29 / 0.01 = 28.999999999999996).
QuotientBelow ==
    {0 - 16383, 0 - 16361, 0 - 16358, 0 - 16336, 0 - 16333, 0 - 16311, 0 - 16308, 0 - 16286,
     0 - 16283, 0 - 16261, 0 - 16258, 0 - 16236, 0 - 16233, 0 - 16211, 0 - 16208, 0 - 16186,
     0 - 16183, 0 - 16161, 0 - 16158, 0 - 16136, 0 - 16133, 0 - 16111, 0 - 16108, 0 - 16086,
     0 - 16083, 0 - 16061, 0 - 16058, 0 - 16036, 0 - 16033, 0 - 16011, 0 - 16008, 0 - 15986,
     0 - 15983, 0 - 15961, 0 - 15958, 0 - 15936, 0 - 15933, 0 - 15911, 0 - 15908, 0 - 15886,
     0 - 15883, 0 - 15861, 0 - 15858, 0 - 15836, 0 - 15833, 0 - 15811, 0 - 15808, 0 - 15786,
     0 - 15783, 0 - 15761, 0 - 15758, 0 - 15736, 0 - 15733, 0 - 15711, 0 - 15708, 0 - 15686,
     0 - 15683, 0 - 15661, 0 - 15658, 0 - 15636, 0 - 15633, 0 - 15611, 0 - 15608, 0 - 15586,
     0 - 15583, 0 - 15561, 0 - 15558, 0 - 15536, 0 - 15533, 0 - 15511, 0 - 15508, 0 - 15486,
     0 - 15483, 0 - 15461, 0 - 15458, 0 - 15436, 0 - 15433, 0 - 15411, 0 - 15408, 0 - 15386,
     0 - 15383, 0 - 15361, 0 - 15358, 0 - 15336, 0 - 15333, 0 - 15311, 0 - 15308, 0 - 15286,
     0 - 15283, 0 - 15261, 0 - 15258, 0 - 15236, 0 - 15233, 0 - 15211, 0 - 15208, 0 - 15186,
     0 - 15183, 0 - 15161, 0 - 15158, 0 - 15136, 0 - 15133, 0 - 15111, 0 - 15108, 0 - 15086,
     0 - 15083, 0 - 15061, 0 - 15058, 0 - 15036, 0 - 15033, 0 - 15011, 0 - 15008, 0 - 14986,
     0 - 14983, 0 - 14961, 0 - 14958, 0 - 14936, 0 - 14933, 0 - 14911, 0 - 14908, 0 - 14886,
     0 - 14883, 0 - 14861, 0 - 14858, 0 - 14836, 0 - 14833, 0 - 14811, 0 - 14808, 0 - 14786,
     0 - 14783, 0 - 14761, 0 - 14758, 0 - 14736, 0 - 14733, 0 - 14711, 0 - 14708, 0 - 14686,
     0 - 14683, 0 - 14661, 0 - 14658, 0 - 14636, 0 - 14633, 0 - 14611, 0 - 14608, 0 - 14586,
     0 - 14583, 0 - 14561, 0 - 14558, 0 - 14536, 0 - 14533, 0 - 14511, 0 - 14508, 0 - 14486,
     0 - 14483, 0 - 14461, 0 - 14458, 0 - 14436, 0 - 14433, 0 - 14411, 0 - 14408, 0 - 14386,
     0 - 14383, 0 - 14361, 0 - 14358, 0 - 14336, 0 - 14333, 0 - 14311, 0 - 14308, 0 - 14286,
     0 - 14283, 0 - 14261, 0 - 14258, 0 - 14236, 0 - 14233, 0 - 14211, 0 - 14208, 0 - 14186,
     0 - 14183, 0 - 14161, 0 - 14158, 0 - 14136, 0 - 14133, 0 - 14111, 0 - 14108, 0 - 14086,
     0 - 14083, 0 - 14061, 0 - 14058, 0 - 14036, 0 - 14033, 0 - 14011, 0 - 14008, 0 - 13986,
     0 - 13983, 0 - 13961, 0 - 13958, 0 - 13936, 0 - 13933, 0 - 13911, 0 - 13908, 0 - 13886,
     0 - 13883, 0 - 13861, 0 - 13858, 0 - 13836, 0 - 13833, 0 - 13811, 0 - 13808, 0 - 13786,
     0 - 13783, 0 - 13761, 0 - 13758, 0 - 13736, 0 - 13733, 0 - 13711, 0 - 13708, 0 - 13686,
     0 - 13683, 0 - 13661, 0 - 13658, 0 - 13636, 0 - 13633, 0 - 13611, 0 - 13608, 0 - 13586,
     0 - 13583, 0 - 13561, 0 - 13558, 0 - 13536, 0 - 13533, 0 - 13511, 0 - 13508, 0 - 13486,
     0 - 13483, 0 - 13461, 0 - 13458, 0 - 13436, 0 - 13433, 0 - 13411, 0 - 13408, 0 - 13386,
     0 - 13383, 0 - 13361, 0 - 13358, 0 - 13336, 0 - 13333, 0 - 13311, 0 - 13308, 0 - 13286,
     0 - 13283, 0 - 13261, 0 - 13258, 0 - 13236, 0 - 13233, 0 - 13211, 0 - 13208, 0 - 13186,
     0 - 13183, 0 - 13161, 0 - 13158, 0 - 13136, 0 - 13133, 0 - 13111, 0 - 13108, 0 - 13086,
     0 - 13083, 0 - 13061, 0 - 13058, 0 - 13036, 0 - 13033, 0 - 13011, 0 - 13008, 0 - 12986,
     0 - 12983, 0 - 12961, 0 - 12958, 0 - 12936, 0 - 12933, 0 - 12911, 0 - 12908, 0 - 12886,
     0 - 12883, 0 - 12861, 0 - 12858, 0 - 12836, 0 - 12833, 0 - 12811, 0 - 12808, 0 - 8179,
     0 - 8168, 0 - 8154, 0 - 8143, 0 - 8129, 0 - 8118, 0 - 8104, 0 - 8093, 0 - 8079, 0 - 8068,
     0 - 8054, 0 - 8043, 0 - 8029, 0 - 8018, 0 - 8004, 0 - 7993, 0 - 7979, 0 - 7968, 0 - 7954,
     0 - 7943, 0 - 7929, 0 - 7918, 0 - 7904, 0 - 7893, 0 - 7879, 0 - 7868, 0 - 7854, 0 - 7843,
     0 - 7829, 0 - 7818, 0 - 7804, 0 - 7793, 0 - 7779, 0 - 7768, 0 - 7754, 0 - 7743, 0 - 7729,
     0 - 7718, 0 - 7704, 0 - 7693, 0 - 7679, 0 - 7668, 0 - 7654, 0 - 7643, 0 - 7629, 0 - 7618,
     0 - 7604, 0 - 7593, 0 - 7579, 0 - 7568, 0 - 7554, 0 - 7543, 0 - 7529, 0 - 7518, 0 - 7504,
     0 - 7493, 0 - 7479, 0 - 7468, 0 - 7454, 0 - 7443, 0 - 7429, 0 - 7418, 0 - 7404, 0 - 7393,
     0 - 7379, 0 - 7368, 0 - 7354, 0 - 7343, 0 - 7329, 0 - 7318, 0 - 7304, 0 - 7293, 0 - 7279,
     0 - 7268, 0 - 7254, 0 - 7243, 0 - 7229, 0 - 7218, 0 - 7204, 0 - 7193, 0 - 7179, 0 - 7168,
     0 - 7154, 0 - 7143, 0 - 7129, 0 - 7118, 0 - 7104, 0 - 7093, 0 - 7079, 0 - 7068, 0 - 7054,
     0 - 7043, 0 - 7029, 0 - 7018, 0 - 7004, 0 - 6993, 0 - 6979, 0 - 6968, 0 - 6954, 0 - 6943,
     0 - 6929, 0 - 6918, 0 - 6904, 0 - 6893, 0 - 6879, 0 - 6868, 0 - 6854, 0 - 6843, 0 - 6829,
     0 - 6818, 0 - 6804, 0 - 6793, 0 - 6779, 0 - 6768, 0 - 6754, 0 - 6743, 0 - 6729, 0 - 6718,
     0 - 6704, 0 - 6693, 0 - 6679, 0 - 6668, 0 - 6654, 0 - 6643, 0 - 6629, 0 - 6618, 0 - 6604,
     0 - 6593, 0 - 6579, 0 - 6568, 0 - 6554, 0 - 6543, 0 - 6529, 0 - 6518, 0 - 6504, 0 - 6493,
     0 - 6479, 0 - 6468, 0 - 6454, 0 - 6443, 0 - 6429, 0 - 6418, 0 - 6404, 0 - 4084, 0 - 4077,
     0 - 4059, 0 - 4052, 0 - 4034, 0 - 4027, 0 - 4009, 0 - 4002, 0 - 3984, 0 - 3977, 0 - 3959,
     0 - 3952, 0 - 3934, 0 - 3927, 0 - 3909, 0 - 3902, 0 - 3884, 0 - 3877, 0 - 3859, 0 - 3852,
     0 - 3834, 0 - 3827, 0 - 3809, 0 - 3802, 0 - 3784, 0 - 3777, 0 - 3759, 0 - 3752, 0 - 3734,
     0 - 3727, 0 - 3709, 0 - 3702, 0 - 3684, 0 - 3677, 0 - 3659, 0 - 3652, 0 - 3634, 0 - 3627,
     0 - 3609, 0 - 3602, 0 - 3584, 0 - 3577, 0 - 3559, 0 - 3552, 0 - 3534, 0 - 3527, 0 - 3509,
     0 - 3502, 0 - 3484, 0 - 3477, 0 - 3459, 0 - 3452, 0 - 3434, 0 - 3427, 0 - 3409, 0 - 3402,
     0 - 3384, 0 - 3377, 0 - 3359, 0 - 3352, 0 - 3334, 0 - 3327, 0 - 3309, 0 - 3302, 0 - 3284,
     0 - 3277, 0 - 3259, 0 - 3252, 0 - 3234, 0 - 3227, 0 - 3209, 0 - 3202, 0 - 2042, 0 - 2026,
     0 - 2017, 0 - 2001, 0 - 1992, 0 - 1976, 0 - 1967, 0 - 1951, 0 - 1942, 0 - 1926, 0 - 1917,
     0 - 1901, 0 - 1892, 0 - 1876, 0 - 1867, 0 - 1851, 0 - 1842, 0 - 1826, 0 - 1817, 0 - 1801,
     0 - 1792, 0 - 1776, 0 - 1767, 0 - 1751, 0 - 1742, 0 - 1726, 0 - 1717, 0 - 1701, 0 - 1692,
     0 - 1676, 0 - 1667, 0 - 1651, 0 - 1642, 0 - 1626, 0 - 1617, 0 - 1601, 0 - 1021, 0 - 1013,
     0 - 996, 0 - 988, 0 - 971, 0 - 963, 0 - 946, 0 - 938, 0 - 921, 0 - 913, 0 - 896, 0 - 888,
     0 - 871, 0 - 863, 0 - 846, 0 - 838, 0 - 821, 0 - 813, 0 - 498, 0 - 494, 0 - 473, 0 - 469,
     0 - 448, 0 - 444, 0 - 423, 0 - 419, 0 - 249, 0 - 247, 0 - 224, 0 - 222, 0 - 112, 0 - 111,
     0 - 56, 0 - 28, 0 - 14, 0 - 7, 29, 47, 57, 58, 59, 94, 113, 114, 115, 116, 117, 118, 119,
     188, 201, 203, 205, 207, 209, 211, 213, 226, 228, 230, 232, 234, 236, 238, 251, 253, 255,
     351, 376, 401, 402, 406, 410, 414, 418, 422, 426, 427, 431, 435, 439, 443, 447, 451, 452,
     456, 460, 464, 468, 472, 476, 477, 481, 485, 489, 493, 497, 501, 502, 506, 510, 702, 727,
     752, 777, 802, 803, 804, 811, 812, 819, 820, 827, 828, 829, 836, 837, 844, 845, 852, 853,
     854, 861, 862, 869, 870, 877, 878, 879, 886, 887, 894, 895, 902, 903, 904, 911, 912, 919,
     920, 927, 928, 929, 936, 937, 944, 945, 952, 953, 954, 961, 962, 969, 970, 977, 978, 979,
     986, 987, 994, 995, 1002, 1003, 1004, 1011, 1012, 1019, 1020, 1379, 1404, 1429, 1454,
     1479, 1504, 1529, 1554, 1579, 1604, 1606, 1608, 1613, 1615, 1622, 1624, 1629, 1631, 1633,
     1638, 1640, 1647, 1649, 1654, 1656, 1658, 1663, 1665, 1672, 1674, 1679, 1681, 1683, 1688,
     1690, 1697, 1699, 1704, 1706, 1708, 1713, 1715, 1722, 1724, 1729, 1731, 1733, 1738, 1740,
     1747, 1749, 1754, 1756, 1758, 1763, 1765, 1772, 1774, 1779, 1781, 1783, 1788, 1790, 1797,
     1799, 1804, 1806, 1808, 1813, 1815, 1822, 1824, 1829, 1831, 1833, 1838, 1840, 1847, 1849,
     1854, 1856, 1858, 1863, 1865, 1872, 1874, 1879, 1881, 1883, 1888, 1890, 1897, 1899, 1904,
     1906, 1908, 1913, 1915, 1922, 1924, 1929, 1931, 1933, 1938, 1940, 1947, 1949, 1954, 1956,
     1958, 1963, 1965, 1972, 1974, 1979, 1981, 1983, 1988, 1990, 1997, 1999, 2004, 2006, 2008,
     2013, 2015, 2022, 2024, 2029, 2031, 2033, 2038, 2040, 2047, 2733, 2758, 2783, 2808, 2833,
     2858, 2883, 2908, 2933, 2958, 2983, 3008, 3033, 3058, 3083, 3108, 3133, 3158, 3183, 3201,
     3205, 3208, 3212, 3216, 3219, 3223, 3226, 3230, 3233, 3237, 3241, 3244, 3248, 3251, 3255,
     3258, 3262, 3266, 3269, 3273, 3276, 3280, 3283, 3287, 3291, 3294, 3298, 3301, 3305, 3308,
     3312, 3316, 3319, 3323, 3326, 3330, 3333, 3337, 3341, 3344, 3348, 3351, 3355, 3358, 3362,
     3366, 3369, 3373, 3376, 3380, 3383, 3387, 3391, 3394, 3398, 3401, 3405, 3408, 3412, 3416,
     3419, 3423, 3426, 3430, 3433, 3437, 3441, 3444, 3448, 3451, 3455, 3458, 3462, 3466, 3469,
     3473, 3476, 3480, 3483, 3487, 3491, 3494, 3498, 3501, 3505, 3508, 3512, 3516, 3519, 3523,
     3526, 3530, 3533, 3537, 3541, 3544, 3548, 3551, 3555, 3558, 3562, 3566, 3569, 3573, 3576,
     3580, 3583, 3587, 3591, 3594, 3598, 3601, 3605, 3608, 3612, 3616, 3619, 3623, 3626, 3630,
     3633, 3637, 3641, 3644, 3648, 3651, 3655, 3658, 3662, 3666, 3669, 3673, 3676, 3680, 3683,
     3687, 3691, 3694, 3698, 3701, 3705, 3708, 3712, 3716, 3719, 3723, 3726, 3730, 3733, 3737,
     3741, 3744, 3748, 3751, 3755, 3758, 3762, 3766, 3769, 3773, 3776, 3780, 3783, 3787, 3791,
     3794, 3798, 3801, 3805, 3808, 3812, 3816, 3819, 3823, 3826, 3830, 3833, 3837, 3841, 3844,
     3848, 3851, 3855, 3858, 3862, 3866, 3869, 3873, 3876, 3880, 3883, 3887, 3891, 3894, 3898,
     3901, 3905, 3908, 3912, 3916, 3919, 3923, 3926, 3930, 3933, 3937, 3941, 3944, 3948, 3951,
     3955, 3958, 3962, 3966, 3969, 3973, 3976, 3980, 3983, 3987, 3991, 3994, 3998, 4001, 4005,
     4008, 4012, 4016, 4019, 4023, 4026, 4030, 4033, 4037, 4041, 4044, 4048, 4051, 4055, 4058,
     4062, 4066, 4069, 4073, 4076, 4080, 4083, 4087, 4091, 4094, 5466, 5491, 5516, 5541, 5566,
     5591, 5616, 5641, 5666, 5691, 5716, 5741, 5766, 5791, 5816, 5841, 5866, 5891, 5916, 5941,
     5966, 5991, 6016, 6041, 6066, 6091, 6116, 6141, 6166, 6191, 6216, 6241, 6266, 6291, 6316,
     6341, 6366, 6391, 6402, 6407, 6410, 6413, 6416, 6421, 6424, 6427, 6432, 6435, 6438, 6441,
     6446, 6449, 6452, 6457, 6460, 6463, 6466, 6471, 6474, 6477, 6482, 6485, 6488, 6491, 6496,
     6499, 6502, 6507, 6510, 6513, 6516, 6521, 6524, 6527, 6532, 6535, 6538, 6541, 6546, 6549,
     6552, 6557, 6560, 6563, 6566, 6571, 6574, 6577, 6582, 6585, 6588, 6591, 6596, 6599, 6602,
     6607, 6610, 6613, 6616, 6621, 6624, 6627, 6632, 6635, 6638, 6641, 6646, 6649, 6652, 6657,
     6660, 6663, 6666, 6671, 6674, 6677, 6682, 6685, 6688, 6691, 6696, 6699, 6702, 6707, 6710,
     6713, 6716, 6721, 6724, 6727, 6732, 6735, 6738, 6741, 6746, 6749, 6752, 6757, 6760, 6763,
     6766, 6771, 6774, 6777, 6782, 6785, 6788, 6791, 6796, 6799, 6802, 6807, 6810, 6813, 6816,
     6821, 6824, 6827, 6832, 6835, 6838, 6841, 6846, 6849, 6852, 6857, 6860, 6863, 6866, 6871,
     6874, 6877, 6882, 6885, 6888, 6891, 6896, 6899, 6902, 6907, 6910, 6913, 6916, 6921, 6924,
     6927, 6932, 6935, 6938, 6941, 6946, 6949, 6952, 6957, 6960, 6963, 6966, 6971, 6974, 6977,
     6982, 6985, 6988, 6991, 6996, 6999, 7002, 7007, 7010, 7013, 7016, 7021, 7024, 7027, 7032,
     7035, 7038, 7041, 7046, 7049, 7052, 7057, 7060, 7063, 7066, 7071, 7074, 7077, 7082, 7085,
     7088, 7091, 7096, 7099, 7102, 7107, 7110, 7113, 7116, 7121, 7124, 7127, 7132, 7135, 7138,
     7141, 7146, 7149, 7152, 7157, 7160, 7163, 7166, 7171, 7174, 7177, 7182, 7185, 7188, 7191,
     7196, 7199, 7202, 7207, 7210, 7213, 7216, 7221, 7224, 7227, 7232, 7235, 7238, 7241, 7246,
     7249, 7252, 7257, 7260, 7263, 7266, 7271, 7274, 7277, 7282, 7285, 7288, 7291, 7296, 7299,
     7302, 7307, 7310, 7313, 7316, 7321, 7324, 7327, 7332, 7335, 7338, 7341, 7346, 7349, 7352,
     7357, 7360, 7363, 7366, 7371, 7374, 7377, 7382, 7385, 7388, 7391, 7396, 7399, 7402, 7407,
     7410, 7413, 7416, 7421, 7424, 7427, 7432, 7435, 7438, 7441, 7446, 7449, 7452, 7457, 7460,
     7463, 7466, 7471, 7474, 7477, 7482, 7485, 7488, 7491, 7496, 7499, 7502, 7507, 7510, 7513,
     7516, 7521, 7524, 7527, 7532, 7535, 7538, 7541, 7546, 7549, 7552, 7557, 7560, 7563, 7566,
     7571, 7574, 7577, 7582, 7585, 7588, 7591, 7596, 7599, 7602, 7607, 7610, 7613, 7616, 7621,
     7624, 7627, 7632, 7635, 7638, 7641, 7646, 7649, 7652, 7657, 7660, 7663, 7666, 7671, 7674,
     7677, 7682, 7685, 7688, 7691, 7696, 7699, 7702, 7707, 7710, 7713, 7716, 7721, 7724, 7727,
     7732, 7735, 7738, 7741, 7746, 7749, 7752, 7757, 7760, 7763, 7766, 7771, 7774, 7777, 7782,
     7785, 7788, 7791, 7796, 7799, 7802, 7807, 7810, 7813, 7816, 7821, 7824, 7827, 7832, 7835,
     7838, 7841, 7846, 7849, 7852, 7857, 7860, 7863, 7866, 7871, 7874, 7877, 7882, 7885, 7888,
     7891, 7896, 7899, 7902, 7907, 7910, 7913, 7916, 7921, 7924, 7927, 7932, 7935, 7938, 7941,
     7946, 7949, 7952, 7957, 7960, 7963, 7966, 7971, 7974, 7977, 7982, 7985, 7988, 7991, 7996,
     7999, 8002, 8007, 8010, 8013, 8016, 8021, 8024, 8027, 8032, 8035, 8038, 8041, 8046, 8049,
     8052, 8057, 8060, 8063, 8066, 8071, 8074, 8077, 8082, 8085, 8088, 8091, 8096, 8099, 8102,
     8107, 8110, 8113, 8116, 8121, 8124, 8127, 8132, 8135, 8138, 8141, 8146, 8149, 8152, 8157,
     8160, 8163, 8166, 8171, 8174, 8177, 8182, 8185, 8188, 8191, 10932, 10957, 10982, 11007,
     11032, 11057, 11082, 11107, 11132, 11157, 11182, 11207, 11232, 11257, 11282, 11307, 11332,
     11357, 11382, 11407, 11432, 11457, 11482, 11507, 11532, 11557, 11582, 11607, 11632, 11657,
     11682, 11707, 11732, 11757, 11782, 11807, 11832, 11857, 11882, 11907, 11932, 11957, 11982,
     12007, 12032, 12057, 12082, 12107, 12132, 12157, 12182, 12207, 12232, 12257, 12282, 12307,
     12332, 12357, 12382, 12407, 12432, 12457, 12482, 12507, 12532, 12557, 12582, 12607, 12632,
     12657, 12682, 12707, 12732, 12757, 12782, 12801, 12804, 12807, 12814, 12817, 12820, 12823,
     12826, 12829, 12832, 12839, 12842, 12845, 12848, 12851, 12854, 12857, 12864, 12867, 12870,
     12873, 12876, 12879, 12882, 12889, 12892, 12895, 12898, 12901, 12904, 12907, 12914, 12917,
     12920, 12923, 12926, 12929, 12932, 12939, 12942, 12945, 12948, 12951, 12954, 12957, 12964,
     12967, 12970, 12973, 12976, 12979, 12982, 12989, 12992, 12995, 12998, 13001, 13004, 13007,
     13014, 13017, 13020, 13023, 13026, 13029, 13032, 13039, 13042, 13045, 13048, 13051, 13054,
     13057, 13064, 13067, 13070, 13073, 13076, 13079, 13082, 13089, 13092, 13095, 13098, 13101,
     13104, 13107, 13114, 13117, 13120, 13123, 13126, 13129, 13132, 13139, 13142, 13145, 13148,
     13151, 13154, 13157, 13164, 13167, 13170, 13173, 13176, 13179, 13182, 13189, 13192, 13195,
     13198, 13201, 13204, 13207, 13214, 13217, 13220, 13223, 13226, 13229, 13232, 13239, 13242,
     13245, 13248, 13251, 13254, 13257, 13264, 13267, 13270, 13273, 13276, 13279, 13282, 13289,
     13292, 13295, 13298, 13301, 13304, 13307, 13314, 13317, 13320, 13323, 13326, 13329, 13332,
     13339, 13342, 13345, 13348, 13351, 13354, 13357, 13364, 13367, 13370, 13373, 13376, 13379,
     13382, 13389, 13392, 13395, 13398, 13401, 13404, 13407, 13414, 13417, 13420, 13423, 13426,
     13429, 13432, 13439, 13442, 13445, 13448, 13451, 13454, 13457, 13464, 13467, 13470, 13473,
     13476, 13479, 13482, 13489, 13492, 13495, 13498, 13501, 13504, 13507, 13514, 13517, 13520,
     13523, 13526, 13529, 13532, 13539, 13542, 13545, 13548, 13551, 13554, 13557, 13564, 13567,
     13570, 13573, 13576, 13579, 13582, 13589, 13592, 13595, 13598, 13601, 13604, 13607, 13614,
     13617, 13620, 13623, 13626, 13629, 13632, 13639, 13642, 13645, 13648, 13651, 13654, 13657,
     13664, 13667, 13670, 13673, 13676, 13679, 13682, 13689, 13692, 13695, 13698, 13701, 13704,
     13707, 13714, 13717, 13720, 13723, 13726, 13729, 13732, 13739, 13742, 13745, 13748, 13751,
     13754, 13757, 13764, 13767, 13770, 13773, 13776, 13779, 13782, 13789, 13792, 13795, 13798,
     13801, 13804, 13807, 13814, 13817, 13820, 13823, 13826, 13829, 13832, 13839, 13842, 13845,
     13848, 13851, 13854, 13857, 13864, 13867, 13870, 13873, 13876, 13879, 13882, 13889, 13892,
     13895, 13898, 13901, 13904, 13907, 13914, 13917, 13920, 13923, 13926, 13929, 13932, 13939,
     13942, 13945, 13948, 13951, 13954, 13957, 13964, 13967, 13970, 13973, 13976, 13979, 13982,
     13989, 13992, 13995, 13998, 14001, 14004, 14007, 14014, 14017, 14020, 14023, 14026, 14029,
     14032, 14039, 14042, 14045, 14048, 14051, 14054, 14057, 14064, 14067, 14070, 14073, 14076,
     14079, 14082, 14089, 14092, 14095, 14098, 14101, 14104, 14107, 14114, 14117, 14120, 14123,
     14126, 14129, 14132, 14139, 14142, 14145, 14148, 14151, 14154, 14157, 14164, 14167, 14170,
     14173, 14176, 14179, 14182, 14189, 14192, 14195, 14198, 14201, 14204, 14207, 14214, 14217,
     14220, 14223, 14226, 14229, 14232, 14239, 14242, 14245, 14248, 14251, 14254, 14257, 14264,
     14267, 14270, 14273, 14276, 14279, 14282, 14289, 14292, 14295, 14298, 14301, 14304, 14307,
     14314, 14317, 14320, 14323, 14326, 14329, 14332, 14339, 14342, 14345, 14348, 14351, 14354,
     14357, 14364, 14367, 14370, 14373, 14376, 14379, 14382, 14389, 14392, 14395, 14398, 14401,
     14404, 14407, 14414, 14417, 14420, 14423, 14426, 14429, 14432, 14439, 14442, 14445, 14448,
     14451, 14454, 14457, 14464, 14467, 14470, 14473, 14476, 14479, 14482, 14489, 14492, 14495,
     14498, 14501, 14504, 14507, 14514, 14517, 14520, 14523, 14526, 14529, 14532, 14539, 14542,
     14545, 14548, 14551, 14554, 14557, 14564, 14567, 14570, 14573, 14576, 14579, 14582, 14589,
     14592, 14595, 14598, 14601, 14604, 14607, 14614, 14617, 14620, 14623, 14626, 14629, 14632,
     14639, 14642, 14645, 14648, 14651, 14654, 14657, 14664, 14667, 14670, 14673, 14676, 14679,
     14682, 14689, 14692, 14695, 14698, 14701, 14704, 14707, 14714, 14717, 14720, 14723, 14726,
     14729, 14732, 14739, 14742, 14745, 14748, 14751, 14754, 14757, 14764, 14767, 14770, 14773,
     14776, 14779, 14782, 14789, 14792, 14795, 14798, 14801, 14804, 14807, 14814, 14817, 14820,
     14823, 14826, 14829, 14832, 14839, 14842, 14845, 14848, 14851, 14854, 14857, 14864, 14867,
     14870, 14873, 14876, 14879, 14882, 14889, 14892, 14895, 14898, 14901, 14904, 14907, 14914,
     14917, 14920, 14923, 14926, 14929, 14932, 14939, 14942, 14945, 14948, 14951, 14954, 14957,
     14964, 14967, 14970, 14973, 14976, 14979, 14982, 14989, 14992, 14995, 14998, 15001, 15004,
     15007, 15014, 15017, 15020, 15023, 15026, 15029, 15032, 15039, 15042, 15045, 15048, 15051,
     15054, 15057, 15064, 15067, 15070, 15073, 15076, 15079, 15082, 15089, 15092, 15095, 15098,
     15101, 15104, 15107, 15114, 15117, 15120, 15123, 15126, 15129, 15132, 15139, 15142, 15145,
     15148, 15151, 15154, 15157, 15164, 15167, 15170, 15173, 15176, 15179, 15182, 15189, 15192,
     15195, 15198, 15201, 15204, 15207, 15214, 15217, 15220, 15223, 15226, 15229, 15232, 15239,
     15242, 15245, 15248, 15251, 15254, 15257, 15264, 15267, 15270, 15273, 15276, 15279, 15282,
     15289, 15292, 15295, 15298, 15301, 15304, 15307, 15314, 15317, 15320, 15323, 15326, 15329,
     15332, 15339, 15342, 15345, 15348, 15351, 15354, 15357, 15364, 15367, 15370, 15373, 15376,
     15379, 15382, 15389, 15392, 15395, 15398, 15401, 15404, 15407, 15414, 15417, 15420, 15423,
     15426, 15429, 15432, 15439, 15442, 15445, 15448, 15451, 15454, 15457, 15464, 15467, 15470,
     15473, 15476, 15479, 15482, 15489, 15492, 15495, 15498, 15501, 15504, 15507, 15514, 15517,
     15520, 15523, 15526, 15529, 15532, 15539, 15542, 15545, 15548, 15551, 15554, 15557, 15564,
     15567, 15570, 15573, 15576, 15579, 15582, 15589, 15592, 15595, 15598, 15601, 15604, 15607,
     15614, 15617, 15620, 15623, 15626, 15629, 15632, 15639, 15642, 15645, 15648, 15651, 15654,
     15657, 15664, 15667, 15670, 15673, 15676, 15679, 15682, 15689, 15692, 15695, 15698, 15701,
     15704, 15707, 15714, 15717, 15720, 15723, 15726, 15729, 15732, 15739, 15742, 15745, 15748,
     15751, 15754, 15757, 15764, 15767, 15770, 15773, 15776, 15779, 15782, 15789, 15792, 15795,
     15798, 15801, 15804, 15807, 15814, 15817, 15820, 15823, 15826, 15829, 15832, 15839, 15842,
     15845, 15848, 15851, 15854, 15857, 15864, 15867, 15870, 15873, 15876, 15879, 15882, 15889,
     15892, 15895, 15898, 15901, 15904, 15907, 15914, 15917, 15920, 15923, 15926, 15929, 15932,
     15939, 15942, 15945, 15948, 15951, 15954, 15957, 15964, 15967, 15970, 15973, 15976, 15979,
     15982, 15989, 15992, 15995, 15998, 16001, 16004, 16007, 16014, 16017, 16020, 16023, 16026,
     16029, 16032, 16039, 16042, 16045, 16048, 16051, 16054, 16057, 16064, 16067, 16070, 16073,
     16076, 16079, 16082, 16089, 16092, 16095, 16098, 16101, 16104, 16107, 16114, 16117, 16120,
     16123, 16126, 16129, 16132, 16139, 16142, 16145, 16148, 16151, 16154, 16157, 16164, 16167,
     16170, 16173, 16176, 16179, 16182, 16189, 16192, 16195, 16198, 16201, 16204, 16207, 16214,
     16217, 16220, 16223, 16226, 16229, 16232, 16239, 16242, 16245, 16248, 16251, 16254, 16257,
     16264, 16267, 16270, 16273, 16276, 16279, 16282, 16289, 16292, 16295, 16298, 16301, 16304,
     16307, 16314, 16317, 16320, 16323, 16326, 16329, 16332, 16339, 16342, 16345, 16348, 16351,
     16354, 16357, 16364, 16367, 16370, 16373, 16376, 16379, 16382}

\* an integer as sign and decimal magnitude, like a Python int
Signed(neg, mag) == [kind |-> "finite", neg |-> neg /\ mag # <<>>,
                     mag |-> IF mag = <<>> THEN <<"0">> ELSE mag]

\* GRID_DEGREES as a double: 5764607523034235 * 2^-59
GRID_BINARY == [kind |-> "finite",
                m |-> <<"5","7","6","4","6","0","7","5","2","3","0","3","4","2","3","5">>,
                k |-> 0 - 59]

\* the value m * 2^k of a double that is a whole number, or its part before the point
Integral(b) == IF b.k >= 0 THEN Times2(b.m, b.k) ELSE Over2(b.m, 0 - b.k)

\* FLOOR of the double q, with the sign of the dividend
FloorOf(neg, q) ==
    LET int == Integral(q)
        whole == q.k >= 0 \/ Times2(int, 0 - q.k) = q.m
    IN  IF q.kind = "inf" THEN [kind |-> "inf", neg |-> neg, mag |-> <<>>]
        ELSE IF ~neg \/ whole THEN Signed(neg, int)
        ELSE Signed(TRUE, BigAdd(int, <<"1">>))

\* FLOOR of the double quotient b / 0.01, by the division itself
FloorDiv(neg, b) ==
    LET s == b.k - GRID_BINARY.k
    IN  FloorOf(neg, RoundDiv(IF s >= 0 THEN Times2(b.m, s) ELSE b.m,
                              IF s < 0 THEN Times2(GRID_BINARY.m, 0 - s) ELSE GRID_BINARY.m))

FloorOfQuotient(x) == FloorDiv(x.neg, ToBinary(x.digits, x.exp))

\* FLOOR(x / 0.01) as SQLite computes it in doubles, as sign and decimal magnitude;
\* an infinite quotient has an infinite floor. A decimal of at most DBL_DIG digits
\* that is no multiple of 0.01 is further from every multiple than the division's
\* rounding error, and its quotient floors as the exact one does; for a multiple
\* of 0.01 within +-180 degrees the outcome of the division is QuotientBelow.
Floor(x) ==
    LET k == x.exp - GRID_DEGREES.exp
        int == Len(x.digits) + k         \* number of digits of the integer part
        whole == IF int <= 0 THEN <<>> ELSE SubSeq(x.digits, 1, int)
        hundredths == x.digits \o Zeros(k)
    IN  IF x.kind = "inf" THEN [kind |-> "inf", neg |-> x.neg, mag |-> <<>>]
        ELSE IF x.digits = <<>> THEN Signed(FALSE, <<>>)
        ELSE IF k < 0 /\ Len(x.digits) <= DBL_DIG
             THEN Signed(x.neg, IF x.neg THEN BigAdd(whole, <<"1">>) ELSE whole)
        ELSE IF k >= 0 /\ int <= 5 /\ MagValue(hundredths) <= 18000
             THEN LET h == MagValue(hundredths)
                  IN  IF (IF x.neg THEN 0 - h ELSE h) \notin QuotientBelow
                      THEN Signed(x.neg, hundredths)
                      ELSE IF x.neg THEN Signed(TRUE, BigAdd(hundredths, <<"1">>))
                      ELSE Signed(FALSE, BigSub(hundredths, <<"1">>))
        ELSE FloorOfQuotient(x)

\* n * 0.01 in doubles
\* the double nearest prod / 2^59, signed
GridProduct(neg, prod) ==
    IF prod = <<>> THEN FloatZero(FALSE)
    ELSE FromBinary(neg, RoundDiv(prod, Times2(<<"1">>, 0 - GRID_BINARY.k)))

TimesGrid(n) == GridProduct(n.neg, BigTimes(n.mag, GRID_BINARY.m))

RealKey(p) == [kind |-> "real", neg |-> p.neg, mag |-> p.digits, exp |-> p.exp]

\* The REAL n * 0.01 of a floor n. While n has at most DBL_DIG digits the product
\* is kept by its factor n (the products of distinct n below 1.5625 * 2^52 are
\* distinct REALs); a larger n is replaced by the product itself, kind "real".
BinOf(n) ==
    IF n.kind = "inf" \/ Len(n.mag) <= DBL_DIG THEN n ELSE RealKey(TimesGrid(n))

\* CAST(FLOOR(x / 0.01) * 0.01 AS REAL)
Bin(x) == BinOf(Floor(x))

\* WITH binned AS (... WHERE lat IS NOT NULL AND lon IS NOT NULL AND price IS NOT NULL)
Binned(rows) == {r \in rows : r.lat # NullNum /\ r.lon # NullNum /\ r.price # NullNum}

\* lat_bin and lon_bin: the same expression over either coordinate
BinBoth(latlon) == [i \in 1..2 |-> Bin(latlon[i])]

CellOf(r) == BinBoth(<<r.lat[1], r.lon[1]>>)

\* PARTITION BY lat_bin, lon_bin
Partition(rows, cell) == {r \in Binned(rows) : CellOf(r) = cell}

\* a <= b for INTEGERs
IntLeq(a, b) ==
    IF a.neg # b.neg THEN a.neg
    ELSE IF a.neg THEN MagLeq(b.mag, a.mag) ELSE MagLeq(a.mag, b.mag)

\* ORDER BY price: the prices of a partition, ascending; rn is the index
RECURSIVE OrderByPrice(_)
OrderByPrice(part) ==
    IF part = {} THEN <<>>
    ELSE LET m == CHOOSE r \in part : \A q \in part : IntLeq(r.price[1], q.price[1])
         IN  <<m.price[1]>> \o OrderByPrice(part \ {m})

\* the rows of `ranked`: ROW_NUMBER() OVER (PARTITION BY lat_bin, lon_bin ORDER BY
\* price) AS rn, COUNT(*) OVER (PARTITION BY lat_bin, lon_bin) AS cnt
RankedCell(cell, prices) ==
    { [lat_bin |-> cell[1], lon_bin |-> cell[2], price |-> prices[i], rn |-> i,
       cnt |-> Len(prices)] : i \in 1..Len(prices) }

Ranked(rows) ==
    UNION { RankedCell(c, OrderByPrice(Partition(rows, c))) :
               c \in {CellOf(r) : r \in Binned(rows)} }

\* rn IN ((cnt + 1) / 2, (cnt + 2) / 2), integer division
MedianRanks(cnt) == {(cnt + 1) \div 2, (cnt + 2) \div 2}

\* --- AVG: sumStep adds each INTEGER to a double rSum, avgFinalize divides rSum by
\* the count. The doubles on the way are whole numbers, kept as [neg, mag].
\* the whole number mag rounded to a double
RoundInt(mag) == IF Len(mag) <= DBL_DIG THEN mag ELSE Integral(RoundDiv(mag, <<"1">>))

\* (double)v of an INTEGER v
IntToReal(v) == [neg |-> v.neg, mag |-> RoundInt(IF v.mag = <<"0">> THEN <<>> ELSE v.mag)]

\* a + b, exactly
SignedSum(a, b) ==
    IF a.neg = b.neg THEN [neg |-> a.neg, mag |-> BigAdd(a.mag, b.mag)]
    ELSE IF BigLess(a.mag, b.mag) THEN [neg |-> b.neg, mag |-> BigSub(b.mag, a.mag)]
    ELSE [neg |-> a.neg /\ a.mag # b.mag, mag |-> BigSub(a.mag, b.mag)]

\* the whole number s as a double
Rounded(s) == [neg |-> s.neg, mag |-> RoundInt(s.mag)]

\* rSum after the values, each addition rounded
RECURSIVE RSum(_)
RSum(vals) ==
    IF vals = <<>> THEN [neg |-> FALSE, mag |-> <<>>]
    ELSE Rounded(SignedSum(RSum(SubSeq(vals, 1, Len(vals) - 1)), IntToReal(vals[Len(vals)])))

RECURSIVE NatDigits(_)
NatDigits(n) == IF n = 0 THEN <<>> ELSE NatDigits(n \div 10) \o <<DigitChar(n % 10)>>

\* rSum / (double)cnt. A quotient that is a decimal of two places and few digits is
\* the double of that decimal; any other is rounded by the division.
RealQuotient(sum, cnt) ==
    IF sum.mag = <<>> THEN FloatZero(FALSE)
    ELSE IF Len(sum.mag) <= 7 /\ (MagValue(sum.mag) * 100) % cnt = 0
         THEN LET d == Decimal(NatDigits((MagValue(sum.mag) * 100) \div cnt), 0 - 2)
              IN  [kind |-> "finite", neg |-> sum.neg, digits |-> d.digits, exp |-> d.exp]
    ELSE FromBinary(sum.neg, RoundDiv(sum.mag, NatDigits(cnt)))

NotNull(v) == v # NullNum

\* AVG(terms): NULL terms are skipped; no term at all gives NULL
AvgOf(vals) ==
    IF vals = <<>> THEN NullNum
    ELSE <<RealQuotient(RSum([i \in 1..Len(vals) |-> vals[i][1]]), Len(vals))>>

Avg(terms) == AvgOf(SelectSeq(terms, NotNull))

\* AVG(CASE WHEN rn IN (...) THEN price END) over the rows of a group
MedianAvg(grp) ==
    Avg([i \in 1..Len(grp) |->
            IF grp[i].rn \in MedianRanks(grp[i].cnt) THEN <<grp[i].price>> ELSE NullNum])

\* HAVING cnt >= 5
Having(cnt) == cnt >= HAVING_CNT

\* the rows of a group in the order the window hands them on: by rn
RECURSIVE ByRn(_)
ByRn(grp) ==
    IF grp = {} THEN <<>>
    ELSE LET m == CHOOSE r \in grp : \A q \in grp : r.rn <= q.rn
         IN  <<m>> \o ByRn(grp \ {m})

\* SELECT lat_bin, lon_bin, cnt AS sales_count, AVG(price), AVG(CASE ...) of a group
Tile(key, grp) ==
    [lat_bin |-> key[1], lon_bin |-> key[2], sales_count |-> key[3],
     avg_price |-> Avg([i \in 1..Len(grp) |-> <<grp[i].price>>]),
     median_price |-> MedianAvg(grp)]

GroupKey(r) == <<r.lat_bin, r.lon_bin, r.cnt>>

\* the SELECT ... FROM ranked GROUP BY lat_bin, lon_bin, cnt HAVING cnt >= 5
GroupBy(ranked) ==
    { Tile(key, ByRn({r \in ranked : GroupKey(r) = key})) :
          key \in {k \in {GroupKey(r) : r \in ranked} : Having(k[3])} }

TilesSelect(rows) == GroupBy(Ranked(rows))

JOINED_REGION == "ppd_sales_geo_region"
JOINED_UK == "ppd_sales_geo"

Table(name) == IF name = JOINED_REGION THEN ppd_sales_geo_region ELSE ppd_sales_geo

\* table_exists / table_rowcount
table_exists(name) == Table(name).exists
table_rowcount(name) == Cardinality(Table(name).rows)

\* faulty variant: the region table is taken whenever it exists
ChooseSource_ExistsOnly ==
    IF table_exists(JOINED_REGION) THEN JOINED_REGION ELSE JOINED_UK

\* "Prefer the region table, but only if it exists AND has rows"
ChooseSource ==
    IF table_exists(JOINED_REGION) /\ table_rowcount(JOINED_REGION) > 0
    THEN JOINED_REGION ELSE JOINED_UK

tiles_unchanged_other ==
    UNCHANGED <<onspd_files, ppd_csv, reader, batch, total_rows_read, total_rows_written,
                report, postcode_geo, postcode_geo_region, ppd_sales, ppd_sales_geo,
                ppd_sales_geo_region, seen, published_tiles>>

\* main() up to the DROP: choose the source table
TilesOpen ==
    /\ pc = "idle" /\ runs < MaxRuns
    /\ runs' = runs + 1
    /\ start' = Snapshot("tiles", start.prev)
    /\ source' = ChooseSource
    /\ pc' = "tiles_drop"
    /\ UNCHANGED heatmap_tiles
    /\ tiles_unchanged_other

\* DROP TABLE IF EXISTS heatmap_tiles
TilesDrop ==
    /\ pc = "tiles_drop"
    /\ heatmap_tiles' = NoTable
    /\ pc' = "tiles_create"
    /\ UNCHANGED <<runs, source, start>>
    /\ tiles_unchanged_other

\* CREATE TABLE heatmap_tiles AS ...; "no such table" raises OperationalError
TilesCreate ==
    /\ pc = "tiles_create"
    /\ IF table_exists(source)
       THEN /\ heatmap_tiles' = [exists |-> TRUE, rows |-> TilesSelect(Table(source).rows)]
            /\ pc' = "done"
       ELSE /\ pc' = "raised"
            /\ UNCHANGED heatmap_tiles
    /\ UNCHANGED <<runs, source, start>>
    /\ tiles_unchanged_other

\* ------------------------------------------------------------------------
\* Inputs explored
\* ------------------------------------------------------------------------
RECURSIVE SeqsUpTo(_, _)
SeqsUpTo(S, n) ==
    IF n = 0 THEN {<<>>}
    ELSE LET shorter == SeqsUpTo(S, n - 1)
         IN  shorter \cup {Append(q, x) : q \in {t \in shorter : Len(t) = n - 1}, x \in S}

Date1 == <<"2","0","2","5","-","0","1","-","0","1">>
Big == <<"9","2","2","3","3","7","2","0","3","6","8","5","4","7","7","5","8","0","8">>

Row7(id, price, postcode) == <<id, price, Date1, postcode, <<"D">>, <<"N">>, <<"F">>>>

\* rows a transaction file is made of
PpdRowChoices ==
    { Row7(<<"T","1">>, <<"1","0","0">>, <<"a"," ","1">>),           \* well-formed
      Row7(<<" ","T","2">>, <<" ","2","0","0">>, <<"A","1">>),       \* padded id and price
      Row7(<<"T","1">>, <<"3","0","0">>, <<"B","2">>),               \* id of the first row again
      Row7(<<" ">>, <<"1","0","0">>, <<"A","1">>),                   \* blank id
      Row7(<<"T","3">>, <<"1","x">>, <<"A","1">>),                   \* price not a number
      Row7(<<"T","3">>, <<"-","5">>, <<"A","1">>),                   \* negative price
      Row7(<<"T","4">>, Big, <<"A","1">>),                           \* price 2^63
      Row7(<<"T","3">>, <<"1","0","0">>, <<" ">>),                   \* blank postcode
      <<<<"T","3">>, <<"1","0","0">>, Date1>>,                       \* three columns
      Row7(<<"T","5">>, <<"7">>, <<"C","3">>) \o <<<<"1","2">>, <<" ">>>>,  \* nine columns
      <<<<"P","r","i","c","e">>, <<"P","o","s","t","c","o","d","e">>>> }     \* header

\* rows a reference file is made of (csv.DictReader dictionaries; Null = key absent)
RefRow(pcds, pcd, lat, long, lon, ladnm) ==
    [pcds |-> pcds, pcd |-> pcd, lat |-> lat, long |-> long, lon |-> lon,
     ladcd |-> <<"E","1">>, ladnm |-> ladnm]

Rugby == <<"R","u","g","b","y">>
Leeds == <<"L","e","e","d","s">>

RefRowChoices ==
    { RefRow(<<"a"," ","1","\n">>, Null, <<"0",".","2","8","5">>, <<"0",".","3">>, Null, Rugby),
      RefRow(<<"A","1">>, Null, <<"0",".","2","9">>, <<"-","0",".","0","1","5">>, Null,
             <<" ","L","e","e","d","s">>),
      RefRow(<<"B","2">>, Null, <<>>, <<" ">>, Null, Rugby),          \* no coordinates
      RefRow(<<>>, Null, <<"0",".","3">>, <<"0",".","3">>, Null, Rugby),   \* empty postcode
      RefRow(<<" ">>, Null, <<"0",".","3">>, <<"0",".","3">>, Null, Rugby), \* blank postcode
      RefRow(<<"C","3">>, Null, <<"a","b","c">>, <<"0",".","3">>, Null, Rugby), \* bad latitude
      RefRow(Null, <<"c","3">>, <<"2",".","9","5","e","-","1">>, Null, <<"0",".","3">>, Leeds),
      RefRow(<<"D","4">>, Null, Null, Null, Null, Null) }             \* short line

\* a CSV file under data/raw: the directory below data/raw that holds it (empty:
\* data/raw itself), its name and its rows
File(dir, name, rows) == [dir |-> dir, name |-> name, rows |-> rows]
NameA == <<"a",".","c","s","v">>
NameB == <<"b","_","u","k",".","c","s","v">>
NameC == <<"c",".","c","s","v">>
Top == <<>>
Nested == <<"o","l","d">>

\* the rows of the second file of a two-file directory
OtherRows == <<RefRow(<<"A","1">>, Null, <<"0",".","3">>, <<"0",".","3">>, Null, Leeds),
               RefRow(<<"E","5">>, Null, <<"0",".","3">>, <<"0",".","3">>, Null, Rugby)>>

\* contents of data/raw: nothing, one file, two files, a file beside one with a
\* _UK name, and a file beside a nested _UK one
OnspdFileChoices ==
    {<<>>}
    \cup { <<File(Top, NameA, rows)>> : rows \in SeqsUpTo(RefRowChoices, MaxRefRows) }
    \cup { <<File(Top, NameA, rows), File(Top, NameC, OtherRows)>> :
              rows \in SeqsUpTo(RefRowChoices, MaxRefRows - 1) }
    \cup { <<File(Top, NameA, OtherRows), File(Top, NameB, rows)>> :
              rows \in SeqsUpTo(RefRowChoices, MaxRefRows - 1) }
    \cup { <<File(Top, NameA, OtherRows), File(Nested, NameB, rows)>> :
              rows \in SeqsUpTo(RefRowChoices, 1) }

\* coordinates
Deg285 == [kind |-> "finite", neg |-> FALSE, digits |-> <<"2","8","5">>, exp |-> 0 - 3]   \* 0.285
Deg290 == [kind |-> "finite", neg |-> FALSE, digits |-> <<"2","9">>, exp |-> 0 - 2]   \* 0.29
Deg295 == [kind |-> "finite", neg |-> FALSE, digits |-> <<"2","9","5">>, exp |-> 0 - 3]   \* 0.295
Deg300 == [kind |-> "finite", neg |-> FALSE, digits |-> <<"3">>, exp |-> 0 - 1]   \* 0.3
DegWest == [kind |-> "finite", neg |-> TRUE, digits |-> <<"1","5">>, exp |-> 0 - 3]   \* -0.015

\* --- committed reference data a run can find: the records (pc, lat, lon, ladcd, ladnm)
\* of a release
GeoRecords == << <<<<"A","1">>, <<Deg285>>, <<Deg300>>, <<"E","1">>, Rugby>>,
                 <<<<"B","2">>, NullNum, NullNum, <<"E","1">>, Rugby>>,
                 <<<<"C","3">>, <<Deg290>>, <<Deg300>>, <<"E","1">>, Leeds>> >>
\* the same postcodes as an earlier release had them: B2 still had coordinates
OldGeoRecords == << <<<<"A","1">>, <<Deg285>>, <<Deg300>>, <<"E","1">>, Rugby>>,
                    <<<<"B","2">>, <<Deg300>>, <<Deg300>>, <<"E","1">>, Rugby>> >>

\* the reference table that holds the records
RECURSIVE Loaded(_)
Loaded(records) ==
    IF records = <<>> THEN <<>>
    ELSE Upsert(Loaded(SubSeq(records, 1, Len(records) - 1)), records[Len(records)])

\* transactions committed by an earlier run
PriorPpd == <<Row7(<<"T","1">>, <<"5","0","0">>, <<"A","1">>),
              Row7(<<"T","6">>, <<"7","0","0">>, <<"B","2">>)>>
PriorSales == PpdExecutemany(<<>>, [i \in 1..Len(PriorPpd) |-> PpdTuple(PriorPpd[i])])

\* states of the store before a transaction run: the reference data loaded with or
\* without its region subset, and either no earlier transaction run or one made
\* against the earlier reference release
StoreChoices ==
    { [geo |-> [exists |-> TRUE, rows |-> Loaded(GeoRecords)],
       region |-> NoTable, sales |-> NoKeyedTable, uk |-> NoTable, uk_region |-> NoTable],
      [geo |-> [exists |-> TRUE, rows |-> Loaded(GeoRecords)],
       region |-> [exists |-> TRUE, rows |-> RegionSelect(Loaded(GeoRecords))],
       sales |-> NoKeyedTable, uk |-> NoTable, uk_region |-> NoTable],
      [geo |-> [exists |-> TRUE, rows |-> Loaded(GeoRecords)],
       region |-> [exists |-> TRUE, rows |-> RegionSelect(Loaded(GeoRecords))],
       sales |-> [exists |-> TRUE, rows |-> PriorSales],
       uk |-> [exists |-> TRUE,
               rows |-> JoinSelect(PriorSales, {Loaded(OldGeoRecords)[k] : k \in DOMAIN Loaded(OldGeoRecords)})],
       uk_region |-> [exists |-> TRUE,
                      rows |-> JoinSelect(PriorSales, RegionSelect(Loaded(OldGeoRecords)))]],
      \* the same after a Reference Loader run that was killed between the DROP and
      \* the CREATE of build_region
      [geo |-> [exists |-> TRUE, rows |-> Loaded(GeoRecords)],
       region |-> NoTable,
       sales |-> [exists |-> TRUE, rows |-> PriorSales],
       uk |-> [exists |-> TRUE,
               rows |-> JoinSelect(PriorSales, {Loaded(OldGeoRecords)[k] : k \in DOMAIN Loaded(OldGeoRecords)})],
       uk_region |-> [exists |-> TRUE,
                      rows |-> JoinSelect(PriorSales, RegionSelect(Loaded(OldGeoRecords)))]] }

\* --- joined tables the grid aggregator can find: rows of these kinds <<lat, lon, price, ladnm>>
\* prices: 100, 200, 300 and 2^53 + 1
Price(mag) == [neg |-> FALSE, mag |-> mag]
Price100 == Price(<<"1","0","0">>)
Price200 == Price(<<"2","0","0">>)
Price300 == Price(<<"3","0","0">>)
PriceBig == Price(<<"9","0","0","7","1","9","9","2","5","4","7","4","0","9","9","3">>)

JoinedKinds ==
    << <<Deg285, Deg300, Price100, Rugby>>, <<Deg285, Deg300, Price200, Rugby>>,
       <<Deg290, Deg300, Price200, Rugby>>, <<Deg290, Deg300, Price300, Rugby>>,
       <<Deg295, Deg300, PriceBig, Rugby>>, <<Deg285, DegWest, Price200, Leeds>>,
       <<Deg285, Deg300, Price300, Leeds>> >>

TxId(i) == <<"T", <<"1","2","3","4","5","6","7","8","9">>[i]>>

JoinedRow(i, k) ==
    [transaction_id |-> TxId(i), price |-> <<JoinedKinds[k][3]>>, transfer_date |-> Date1,
     postcode |-> <<"P", <<"1","2","3","4","5","6","7","8","9">>[k]>>,
     property_type |-> <<"D">>, new_build |-> <<"N">>, tenure |-> <<"F">>,
     lat |-> <<JoinedKinds[k][1]>>, lon |-> <<JoinedKinds[k][2]>>, ladnm |-> JoinedKinds[k][4]]

\* one table per multiset of kinds: row i has a kind no smaller than row i - 1
JoinedChoices ==
    UNION { { {JoinedRow(i, f[i]) : i \in 1..n} :
                f \in {g \in [1..n -> 1..Len(JoinedKinds)] :
                          \A i \in 1..(n - 1) : g[i] <= g[i + 1]} } : n \in 0..MaxJoined }

StaleTiles == { [lat_bin |-> [kind |-> "finite", neg |-> FALSE, mag |-> <<"3","1">>],
                 lon_bin |-> [kind |-> "finite", neg |-> FALSE, mag |-> <<"3","0">>],
                 sales_count |-> 5,
                 avg_price |-> <<[kind |-> "finite", neg |-> FALSE, digits |-> <<"1">>, exp |-> 2]>>,
                 median_price |-> <<[kind |-> "finite", neg |-> FALSE, digits |-> <<"1">>, exp |-> 2]>>] }

\* ------------------------------------------------------------------------
\* Specifications
\* ------------------------------------------------------------------------
\* the published snapshot: absent, a snapshot of an earlier build, and one that
\* also holds a row without a latitude bin
PublishedChoices ==
    { NoTable,
      [exists |-> TRUE, rows |-> StaleTiles],
      [exists |-> TRUE,
       rows |-> StaleTiles \cup {[t EXCEPT !.lat_bin = NanBin] : t \in StaleTiles}] }

InitCommon ==
    /\ pc = "idle"
    /\ runs = 0
    /\ reader = <<>>
    /\ batch = <<>>
    /\ total_rows_read = 0
    /\ total_rows_written = 0
    /\ report = <<>>
    /\ source = JOINED_UK

\* states of the store before a Reference Loader run: empty, an earlier release
\* loaded, and that release with its region subset dropped and not rebuilt
RefStoreChoices ==
    { [geo |-> NoKeyedTable, region |-> NoTable],
      [geo |-> [exists |-> TRUE, rows |-> Loaded(OldGeoRecords)],
       region |-> [exists |-> TRUE, rows |-> RegionSelect(Loaded(OldGeoRecords))]],
      [geo |-> [exists |-> TRUE, rows |-> Loaded(OldGeoRecords)], region |-> NoTable] }

\* the Reference Loader
InitRef ==
    /\ InitCommon
    /\ onspd_files \in OnspdFileChoices
    /\ ppd_csv = <<>>
    /\ \E st \in RefStoreChoices :
          /\ postcode_geo = st.geo
          /\ postcode_geo_region = st.region
    /\ ppd_sales = NoKeyedTable
    /\ ppd_sales_geo = NoTable
    /\ ppd_sales_geo_region = NoTable
    /\ heatmap_tiles = NoTable
    /\ start = Snapshot("none", "none")
    /\ published_tiles = NoTable
    /\ seen = <<>>

NextRef ==
    \/ OnspdOpen
    \/ IngestCsvRow
    \/ IngestCsvEnd
    \/ BuildRegionDrop
    \/ BuildRegionCreate
    \/ NextRun
    \/ Kill

SpecRef == InitRef /\ [][NextRef]_vars

\* the Transaction Loader and the Spatial Join Builder on a loaded reference table
InitPpd ==
    /\ InitCommon
    /\ onspd_files = <<>>
    /\ ppd_csv \in SeqsUpTo(PpdRowChoices, MaxPpdRows)
    /\ \E st \in StoreChoices :
          /\ postcode_geo = st.geo
          /\ postcode_geo_region = st.region
          /\ ppd_sales = st.sales
          /\ ppd_sales_geo = st.uk
          /\ ppd_sales_geo_region = st.uk_region
    /\ heatmap_tiles = NoTable
    /\ start = Snapshot("none", "none")
    /\ published_tiles \in PublishedChoices
    /\ seen = <<>>

NextPpd ==
    \/ IngestPpdOpen
    \/ IngestPpdRow
    \/ IngestPpdEnd
    \/ IngestPpdDone
    \/ BuildJoinedDropUk
    \/ BuildJoinedCreateUk
    \/ BuildJoinedDropRegion
    \/ BuildJoinedCreateRegion
    \/ Kill
    \/ Reader

SpecPpd == InitPpd /\ [][NextPpd]_vars

\* the Grid Aggregator on built joined tables
InitTiles ==
    /\ InitCommon
    /\ onspd_files = <<>>
    /\ ppd_csv = <<>>
    /\ postcode_geo = [exists |-> TRUE, rows |-> Loaded(GeoRecords)]
    /\ postcode_geo_region = [exists |-> TRUE, rows |-> RegionSelect(Loaded(GeoRecords))]
    /\ ppd_sales = NoKeyedTable
    /\ ppd_sales_geo \in {NoTable} \cup {[exists |-> TRUE, rows |-> rows] : rows \in JoinedChoices}
    /\ ppd_sales_geo_region \in
          {NoTable, [exists |-> TRUE, rows |-> {r \in ppd_sales_geo.rows : r.ladnm = Rugby}]}
    /\ heatmap_tiles \in {NoTable, [exists |-> TRUE, rows |-> StaleTiles]}
    /\ start = Snapshot("none", "none")
    /\ published_tiles \in PublishedChoices
    /\ seen = <<>>

NextTiles ==
    \/ TilesOpen
    \/ TilesDrop
    \/ TilesCreate
    \/ Kill
    \/ Reader

SpecTiles == InitTiles /\ [][NextTiles]_vars

\* both loaders, for the properties they share
NextLoad ==
    \/ OnspdOpen
    \/ IngestCsvRow
    \/ IngestCsvEnd
    \/ BuildRegionDrop
    \/ BuildRegionCreate
    \/ NextPpd

SpecLoad == (InitRef \/ InitPpd) /\ [][NextLoad]_vars

Next == NextRef \/ NextPpd \/ NextTiles

Spec == (InitRef \/ InitPpd \/ InitTiles) /\ [][Next]_vars

\* ------------------------------------------------------------------------
\* Properties
\* ------------------------------------------------------------------------
\* rows of the transaction file the row loop iterates over (header removed)
DataRows(file) == IF file # <<>> /\ detect_header(Head(file)) THEN Tail(file) ELSE file

\* batch tuples of the rows the Transaction Loader accepts, in file order
PpdAccepted(rows) ==
    LET sel == SelectSeq(rows, PpdAccepts) IN [i \in 1..Len(sel) |-> PpdTuple(sel[i])]

\* batch tuples of the rows the Reference Loader accepts, in file order, up to the
\* first row on which float() raises
RECURSIVE OnspdAccepted(_)
OnspdAccepted(rows) ==
    IF rows = <<>> THEN <<>>
    ELSE IF ~OnspdAccepts(Head(rows)) THEN OnspdAccepted(Tail(rows))
    ELSE IF OnspdRaises(Head(rows)) THEN <<>>
    ELSE <<OnspdTuple(Head(rows))>> \o OnspdAccepted(Tail(rows))

JoinPhase == {"join_drop_uk", "join_create_uk", "join_drop_region", "join_create_region"}

\* positions at which the rebuild of a derived table has started and not finished
Rebuilding(t) ==
    CASE t = "uk" -> pc \in {"join_drop_uk", "join_create_uk"}
      [] t = "region" -> pc \in {"join_drop_region", "join_create_region"}
      [] t = "tiles" -> pc \in {"tiles_drop", "tiles_create"}

\* C1: while a derived table that existed with rows is being rebuilt, a query of
\* a concurrent reader never finds it missing or empty.
C1_ReaderNeverSeesDropped ==
    \A t \in {"uk", "region", "tiles"} :
        (Rebuilding(t) /\ start.derived[t] = "rows") => Derived[t] = "rows"

\* the value at rank k of the prices of a set of rows, by position in sorted order:
\* fewer than k prices are smaller and at least k are no larger
RankValue(part, k) ==
    CHOOSE v \in {r.price[1] : r \in part} :
        /\ Cardinality({r \in part : ~IntLeq(v, r.price[1])}) < k
        /\ Cardinality({r \in part : IntLeq(r.price[1], v)}) >= k

\* an INTEGER as a whole number [neg, mag]
WholeOf(v) == [neg |-> v.neg, mag |-> IF v.mag = <<"0">> THEN <<>> ELSE v.mag]

\* twice the median by sorted position, as a whole number
TwiceMedian(part) ==
    LET n == Cardinality(part)
    IN  IF n % 2 = 1
        THEN SignedSum(WholeOf(RankValue(part, (n + 1) \div 2)),
                       WholeOf(RankValue(part, (n + 1) \div 2)))
        ELSE SignedSum(WholeOf(RankValue(part, n \div 2)),
                       WholeOf(RankValue(part, (n \div 2) + 1)))

\* twice the double b is the whole number mag
TwiceIs(b, mag) ==
    IF b.k + 1 >= 0 THEN Times2(b.m, b.k + 1) = mag ELSE b.m = Times2(mag, 0 - (b.k + 1))

\* the REAL f is exactly half the whole number t
IsHalfOf(f, t) ==
    IF f.kind # "finite" THEN FALSE
    ELSE IF f.digits = <<>> THEN t.mag = <<>>
    ELSE f.neg = t.neg /\ TwiceIs(ToBinary(f.digits, f.exp), t.mag)

SourceRows == Table(source).rows

RowsOfTile(t) == {r \in Binned(SourceRows) : CellOf(r) = <<t.lat_bin, t.lon_bin>>}

TilesBuilt == pc = "done" /\ start.main = "tiles"

\* the rows of `ranked` for one cell holding the prices, given in ascending order
RankedPrices(prices) ==
    [i \in 1..Len(prices) |-> [price |-> prices[i], rn |-> i, cnt |-> Len(prices)]]

Price400 == Price(<<"4","0","0">>)

\* C2: the median_price of every emitted tile is exactly the median by sorted
\* position of the prices of its cell (rank (n+1)/2 for odd n, mean of ranks n/2
\* and n/2+1 for even n); [100,200,300] gives 200 and [100,200,300,400] gives 250.
C2_MedianBySortedPosition ==
    /\ TilesBuilt =>
          \A t \in heatmap_tiles.rows :
              /\ t.median_price # NullNum
              /\ IsHalfOf(t.median_price[1], TwiceMedian(RowsOfTile(t)))
    /\ MedianAvg(RankedPrices(<<Price100, Price200, Price300>>))
          = <<[kind |-> "finite", neg |-> FALSE, digits |-> <<"2">>, exp |-> 2]>>
    /\ MedianAvg(RankedPrices(<<Price100, Price200, Price300, Price400>>))
          = <<[kind |-> "finite", neg |-> FALSE, digits |-> <<"2","5">>, exp |-> 1]>>

\* C3: for any configured minimum sample count m, a cell is emitted exactly when
\* its row count is >= m (m = 1: three rows in one cell give one tile of 3).
C3_EmittedIffAtLeastConfigured ==
    TilesBuilt =>
        \A m \in 1..MaxJoined :
            \A c \in {CellOf(r) : r \in SourceRows} :
                (\E t \in heatmap_tiles.rows : <<t.lat_bin, t.lon_bin>> = c)
                    <=> Cardinality({r \in SourceRows : CellOf(r) = c}) >= m

\* floor(x / g) of the number x, exactly: the digits of x down to the hundredths,
\* and one more below zero when digits follow them
ExactFloor(x) ==
    LET k == x.exp - GRID_DEGREES.exp
        int == Len(x.digits) + k
        whole == IF int <= 0 THEN <<>> ELSE SubSeq(x.digits, 1, int)
    IN  IF x.kind = "inf" THEN [kind |-> "inf", neg |-> x.neg, mag |-> <<>>]
        ELSE IF k >= 0 THEN Signed(x.neg, x.digits \o Zeros(k))
        ELSE Signed(x.neg, IF x.neg THEN BigAdd(whole, <<"1">>) ELSE whole)

\* the bin (floor(lat/g)*g, floor(lon/g)*g) of a row
ExactBin(r) == <<BinOf(ExactFloor(r.lat[1])), BinOf(ExactFloor(r.lon[1]))>>

\* C4: after an aggregator run every tile's sales_count is the number of rows of the
\* chosen joined table whose bin (floor(lat/g)*g, floor(lon/g)*g) is the tile's key,
\* and no two tiles share a (lat_bin, lon_bin).
C4_SalesCountAndKey ==
    TilesBuilt =>
        /\ \A t \in heatmap_tiles.rows :
              t.sales_count
                 = Cardinality({r \in Binned(SourceRows) : ExactBin(r) = <<t.lat_bin, t.lon_bin>>})
        /\ \A t, u \in heatmap_tiles.rows :
              (t.lat_bin = u.lat_bin /\ t.lon_bin = u.lon_bin) => t = u

\* reference records a transaction tuple joins to
Resolves(p, geo) == {g \in geo : g[1] = p[4] /\ g[2] # NullNum /\ g[3] # NullNum}

JoinedExactly(joined, geo) ==
    /\ \A k \in DOMAIN ppd_sales.rows :
          Cardinality({r \in joined : r.transaction_id = k})
              = IF Resolves(ppd_sales.rows[k], geo) # {} THEN 1 ELSE 0
    /\ \A r \in joined :
          /\ r.transaction_id \in DOMAIN ppd_sales.rows
          /\ r.price = ppd_sales.rows[r.transaction_id][2]
          /\ r.postcode = ppd_sales.rows[r.transaction_id][4]
          /\ \E g \in Resolves(ppd_sales.rows[r.transaction_id], geo) :
                r.lat = g[2] /\ r.lon = g[3] /\ r.ladnm = g[5]

JoinBuilt == pc = "done" /\ start.main = "ppd"

\* C5: after build_joined_tables each joined table holds exactly one row per
\* transaction whose postcode is the key of a record of its reference set with
\* both coordinates, and nothing else (no null-coordinate or unmatched transaction,
\* no row of an earlier run); a reference set that is missing has no record.
C5_JoinedExactlyResolved ==
    JoinBuilt =>
        /\ ppd_sales_geo.exists
        /\ JoinedExactly(ppd_sales_geo.rows, GeoRows)
        /\ postcode_geo_region.exists => ppd_sales_geo_region.exists
        /\ JoinedExactly(ppd_sales_geo_region.rows, postcode_geo_region.rows)

\* the file list in processing order, as one row sequence
RECURSIVE AllRows(_)
AllRows(csvs) == IF csvs = <<>> THEN <<>> ELSE Head(csvs).rows \o AllRows(Tail(csvs))

\* last-row-wins over a batch-tuple sequence applied to the table found at the start
LastRowWins(table, before, acc) ==
    /\ DOMAIN table = (DOMAIN before) \cup {acc[i][1] : i \in 1..Len(acc)}
    /\ \A i \in 1..Len(acc) :
          (\A j \in (i + 1)..Len(acc) : acc[j][1] # acc[i][1])
              => table[acc[i][1]] = BoundOnspd(acc[i])
    /\ \A k \in (DOMAIN before) \ {acc[i][1] : i \in 1..Len(acc)} : table[k] = before[k]

OnspdDone == pc = "done" /\ start.main = "onspd"

\* C6 as stated: after a run every postcode holds the attributes of the last row
\* carrying it over all files found, files in order and rows in order.
C6_LastRowWinsAcrossFiles ==
    OnspdDone =>
        LastRowWins(postcode_geo.rows, start.postcode_geo, OnspdAccepted(AllRows(find_csv_files(onspd_files))))

\* the file main() ingests
IngestedFile == chosen(find_csv_files(onspd_files))

\* C6 amended: after a completed run every postcode carried by an accepted row of
\* the one file the run ingested holds the attributes of the last such row of that
\* file, and every other record is as the run found it.
C6_LastRowWinsInIngestedFile ==
    OnspdDone =>
        LastRowWins(postcode_geo.rows, start.postcode_geo, OnspdAccepted(IngestedFile.rows))

\* two files found, the second one ingested, holding one postcode twice with
\* different attributes, on a table that held a record of another postcode
C6_Witness ==
    /\ OnspdDone
    /\ Len(onspd_files) = 2
    /\ IngestedFile = onspd_files[2]
    /\ LET acc == OnspdAccepted(IngestedFile.rows)
       IN  /\ Len(acc) = 2 /\ acc[1][1] = acc[2][1] /\ acc[1] # acc[2]
           /\ (DOMAIN start.postcode_geo) \ {acc[1][1]} # {}

\* k rows are durable: k is a whole number of batches or the whole sequence
BatchPrefix(k, n) == k % BATCH_SIZE = 0 \/ k = n

\* C7: at every point of a loader run, and after it ended in any way, the table
\* is the table found at the start with a prefix of the accepted rows upserted in
\* file order, the prefix being a whole number of batches or the whole sequence;
\* while the loop runs only the rows of the in-memory batch are missing.
C7_DurableBatchPrefix ==
    /\ start.main = "ppd" =>
          LET data == DataRows(ppd_csv)
              acc == PpdAccepted(data)
              seenRows == SubSeq(data, 1, Len(data) - Len(reader))
          IN  \E k \in 0..Len(acc) :
                 /\ BatchPrefix(k, Len(acc))
                 /\ ~PpdBindFails(SubSeq(acc, 1, k))
                 /\ ppd_sales.rows = PpdExecutemany(start.ppd_sales, SubSeq(acc, 1, k))
                 /\ pc = "ingest_ppd" =>
                       /\ k + Len(batch) = Len(SelectSeq(seenRows, PpdAccepts))
                       /\ Len(batch) < BATCH_SIZE
    /\ start.main = "onspd" /\ find_csv_files(onspd_files) # <<>> =>
          LET data == IngestedFile.rows
              acc == OnspdAccepted(data)
              seenRows == SubSeq(data, 1, Len(data) - Len(reader))
          IN  \E k \in 0..Len(acc) :
                 /\ BatchPrefix(k, Len(acc))
                 /\ postcode_geo.rows = upsert_batch(start.postcode_geo, SubSeq(acc, 1, k))
                 /\ pc = "ingest_csv" =>
                       /\ k + Len(batch) = Len(OnspdAccepted(seenRows))
                       /\ Len(batch) < BATCH_SIZE

\* a transaction run killed after one batch was committed and while a later
\* accepted row was only in memory
C7_Witness ==
    /\ pc = "killed" /\ start.main = "ppd"
    /\ reader = <<>>
    /\ DOMAIN ppd_sales.rows # DOMAIN start.ppd_sales
    /\ \E k \in 1..(Len(PpdAccepted(DataRows(ppd_csv))) - 1) :
          /\ ~PpdBindFails(SubSeq(PpdAccepted(DataRows(ppd_csv)), 1, k + 1))
          /\ ppd_sales.rows = PpdExecutemany(start.ppd_sales,
                                             SubSeq(PpdAccepted(DataRows(ppd_csv)), 1, k))
          /\ ppd_sales.rows # PpdExecutemany(start.ppd_sales,
                                             SubSeq(PpdAccepted(DataRows(ppd_csv)), 1, k + 1))

\* C8: a malformed record (empty key, unparsable numeric field, too few columns)
\* never raises and never aborts a loader run.
C8_MalformedRowNeverAborts == pc # "raised"

\* the four checks of the claim, the id and the price taken without surrounding blanks
PassesFourChecks(row) ==
    /\ Len(row) >= 7
    /\ strip(row[1]) # <<>>
    /\ IsIntLiteral(row[2])
    /\ normalise_postcode(row[4]) # <<>>

PpdLoaderEnded == start.main = "ppd" /\ pc \in JoinPhase \cup {"done", "raised"}

\* C9: the Transaction Loader writes a data row exactly when it passes the four
\* checks, stores absent or blank optional columns as null, and reports the number
\* of data rows read and the number of rows that passed.
C9_WrittenIffFourChecks ==
    PpdLoaderEnded =>
        LET data == DataRows(ppd_csv)
            passing == SelectSeq(data, PassesFourChecks)
            ids == {strip(passing[i][1]) : i \in 1..Len(passing)}
        IN  /\ DOMAIN ppd_sales.rows = (DOMAIN start.ppd_sales) \cup ids
            /\ \A k \in DOMAIN ppd_sales.rows : \A i \in 8..16 : ppd_sales.rows[k][i] # <<>>
            /\ report = <<Len(data), Len(passing)>>

\* C10: every stored transaction has its own transaction id and a price that is a
\* non-negative integer.
C10_UniqueIdNonNegativePrice ==
    \A k \in DOMAIN ppd_sales.rows :
        /\ ppd_sales.rows[k][1] = k
        /\ ~ppd_sales.rows[k][2][1].neg

\* a run of the Reference Loader that followed a completed run has completed
OnspdRerunDone == OnspdDone /\ start.prev = "done"

\* C11: a further Reference Loader run on the same input leaves the reference table
\* and the region subset exactly as the run before left them, with one record per
\* postcode.
C11_RerunLeavesTablesIdentical ==
    OnspdRerunDone =>
        /\ postcode_geo.rows = start.postcode_geo
        /\ postcode_geo_region = start.postcode_geo_region
        /\ \A g, h \in postcode_geo_region.rows : g[1] = h[1] => g = h

\* a completed rerun of a file that carries one postcode twice with different
\* attributes and that yields a non-empty region subset
C11_Witness ==
    /\ OnspdRerunDone
    /\ postcode_geo_region.rows # {}
    /\ LET acc == OnspdAccepted(IngestedFile.rows)
       IN  \E i, j \in 1..Len(acc) : i < j /\ acc[i][1] = acc[j][1] /\ acc[i] # acc[j]

\* the joined table the claim names: the region one when it exists with a row
PreferredRows ==
    IF ppd_sales_geo_region.exists /\ ppd_sales_geo_region.rows # {}
    THEN ppd_sales_geo_region.rows ELSE ppd_sales_geo.rows

\* C12: the tiles of an aggregator run are those of the region joined table when
\* it exists and has a row, and otherwise those of the full joined table: one tile
\* for every cell of that table that holds enough rows, counting its rows only.
C12_RegionPreferredElseFull ==
    TilesBuilt =>
        /\ \A t \in heatmap_tiles.rows :
              t.sales_count
                 = Cardinality({r \in PreferredRows : CellOf(r) = <<t.lat_bin, t.lon_bin>>})
        /\ \A c \in {CellOf(r) : r \in PreferredRows} :
              Cardinality({r \in PreferredRows : CellOf(r) = c}) >= HAVING_CNT
                 => \E t \in heatmap_tiles.rows : <<t.lat_bin, t.lon_bin>> = c

\* the region table was read, and its tile leaves out a row that the full table
\* has in the same cell
C12_Witness ==
    /\ TilesBuilt
    /\ source = JOINED_REGION
    /\ \E t \in heatmap_tiles.rows :
          t.sales_count
             < Cardinality({r \in ppd_sales_geo.rows : CellOf(r) = <<t.lat_bin, t.lon_bin>>})

\* C13: every key of the reference table is a non-empty normalized postcode
\* (uppercase, no whitespace); a row whose postcode is empty, also after
\* normalization, is never upserted.
C13_KeysNonEmptyNormalized ==
    \A k \in DOMAIN postcode_geo.rows :
        /\ k # <<>>
        /\ \A i \in 1..Len(k) : k[i] \notin Whitespace
        /\ upper(k) = k

====
